---- MODULE Spec2Model ----
(***************************************************************************)
(* Pathogen mutation-testing orchestrator: scratch workspace, worker       *)
(* process (bin/pathogen-worker.rs), worker pool and dispatcher            *)
(* (worker_pool.rs), driven by main.rs.                                    *)
(*                                                                         *)
(* Strings are sequences of tokens: starts_with(p) is "the first token is  *)
(* p", contains(p) is "some token is p".  File contents are tuples:        *)
(* <<"orig">> the pristine text of a file, <<"mut", m>> the full mutated   *)
(* text of mutation m, <<"trunc">> what a write that failed half way       *)
(* leaves behind, <<"absent">> no file.                                    *)
(***************************************************************************)
EXTENDS Integers, Sequences, FiniteSets, TLC

\* ------------------------------------------------------------------ bounds
pool_size == 2
NumMutations == 3
MaxSpawns == 1
MaxFaults == 1
MaxCatalog == 3
MaxOutput == 2

\* -------------------------------------------------------- program constants
MaxExecutions == 50

Mutations == 1..NumMutations
Workers == 1..(pool_size + MaxSpawns)

\* ------------------------------------------------------------- file system
\* The project: top-level children "src" and "cfg"; the source directory is
\* src/cli (the default of --source) and holds the target files "a" and "b";
\* "o" is a file of src outside src/cli, "c" a file of cfg.
Tops == {"src", "cfg"}
FileNames == {"a", "b", "o", "c"}
SourceFiles == {"a", "b"}
TopOf(f) == IF f = "c" THEN "cfg" ELSE "src"
Trees == {"dev", "W"}
Locs == Trees \X FileNames

ORIG == <<"orig">>
TRUNC == <<"trunc">>
ABSENT == <<"absent">>
MutContent(m) == <<"mut", m>>

\* Mutation m of the catalog: its target file (Mutation.file) and id.
\* Mutations 1 and 2 are two mutants of the same file.
FileOf(m) == IF m <= 2 THEN "a" ELSE "b"

\* The tree a path W/<top>/.../f resolves into: the developer's tree when
\* W/<top> is a symlink, the scratch workspace otherwise.
Resolve(top, f) == IF top[TopOf(f)] = "symlink" THEN <<"dev", f>> ELSE <<"W", f>>

\* fs::remove_dir_all on W/<t>: a symlink is unlinked (not followed), a
\* directory is removed with the files below it.
RemoveTop(st, t) ==
  [top |-> [st.top EXCEPT ![t] = "absent"],
   fs  |-> [l \in Locs |->
             IF st.top[t] = "copy" /\ l[1] = "W" /\ TopOf(l[2]) = t
             THEN ABSENT ELSE st.fs[l]]]

\* copy_directory_recursively(project/<t>, W/<t>)
CopyTop(st, t) ==
  [top |-> [st.top EXCEPT ![t] = "copy"],
   fs  |-> [l \in Locs |->
             IF l[1] = "W" /\ TopOf(l[2]) = t THEN st.fs[<<"dev", l[2]>>]
             ELSE st.fs[l]]]

\* __link_or_copy_file for one child of the project root
link_or_copy_file(st, t, symlinkOk) ==
  IF symlinkOk THEN [st EXCEPT !.top[t] = "symlink"] ELSE CopyTop(st, t)

\* __symlink_project_files: every child of the project root that is not
\* skipped ("src" and "cfg" are not) is linked, or copied when linking fails.
symlink_project_files(st, symlinkOk) ==
  link_or_copy_file(link_or_copy_file(st, "src", symlinkOk), "cfg", symlinkOk)

\* __recreate_source_structure: W/src is removed if it exists and replaced
\* by a recursive copy of project/src.
recreate_source_structure_nop(st) == st
recreate_source_structure(st) ==
  CopyTop(IF st.top["src"] # "absent" THEN RemoveTop(st, "src") ELSE st, "src")

\* __copy_source_files_for_mutation: W/src/cli is removed (through whatever
\* W/src is) and recopied from the real source directory.
copy_source_files_for_mutation(st) ==
  LET removed == [l \in Locs |->
                    IF \E f \in SourceFiles : l = Resolve(st.top, f)
                    THEN ABSENT ELSE st.fs[l]]
  IN [st EXCEPT !.fs = [l \in Locs |->
                    IF \E f \in SourceFiles : l = Resolve(st.top, f)
                    THEN removed[<<"dev", l[2]>>] ELSE removed[l]]]

\* __setup_source_directory_for_mutation
setup_source_directory_for_mutation(st) ==
  copy_source_files_for_mutation(recreate_source_structure(st))

\* ------------------------------------------------------------------ strings
Tokens(s) == {s[i] : i \in 1..Len(s)}
starts_with(s, p) == Len(s) > 0 /\ s[1] = p
contains(s, p) == p \in Tokens(s)

\* What the test runner can print (stdout, then stderr) and its exit code.
\* The third run is a type error reported by the TypeScript toolchain.
RunnerRuns ==
  { [code |-> 0, out |-> <<"1 pass", "0 fail">>],
    [code |-> 1, out |-> <<"0 pass", "1 fail">>],
    [code |-> 1, out |-> <<"error TS", "2304: Cannot find name">>] }

\* get_target_test_file for the TypeScript targets: a.spec.ts exists,
\* b.spec.ts does not.
get_target_test_file(f) == f = "a"

\* TestResult on the wire (execution_time_ms is not modelled)
TestResult_without_id(success, output, mutation_id) ==
  [success |-> success, output |-> output, mutation_id |-> 0]
TestResult(success, output, mutation_id) ==
  [success |-> success, output |-> output, mutation_id |-> mutation_id]

NoResult == TestResult(FALSE, <<>>, 0)

read_error_result_untagged(m) ==
  TestResult(FALSE, <<"Failed to read original file:", "io error">>, m)

\* __read_original_file, Err branch
read_error_result(m) ==
  TestResult(FALSE, <<"FILE_ERROR:", "Failed to read original file:", "io error">>, m)

\* __apply_mutation, Err branch
write_error_result(m) ==
  TestResult(FALSE, <<"FILE_ERROR:", "Failed to write mutation:", "io error">>, m)

\* __handle_successful_test
handle_successful_test_no_tests_is_kill(output, m) ==
  IF contains(output, "had no matches") THEN TestResult(FALSE, <<"NO_TESTS:">> \o output, m)
  ELSE TestResult(contains(output, "0 fail"), output, m)
handle_successful_test(output, m) ==
  LET has_test_matches == ~contains(output, "had no matches")
      tests_passed == contains(output, "0 fail")
  IN IF ~has_test_matches THEN TestResult(TRUE, <<"NO_TESTS:">> \o output, m)
     ELSE IF tests_passed THEN TestResult(TRUE, output, m)
     ELSE TestResult(FALSE, output, m)

\* __handle_test_error
handle_test_error(error, m) ==
  IF contains(error, "timed out") THEN TestResult(FALSE, <<"TIMEOUT:">> \o error, m)
  ELSE IF contains(error, "Failed to spawn") \/ contains(error, "Failed to get test output")
       THEN TestResult(FALSE, <<"EXECUTION_ERROR:">> \o error, m)
  ELSE TestResult(FALSE, error, m)

\* __create_test_result; test_output is Result<String, String>
create_test_result(test_output, m) ==
  IF test_output.ok THEN handle_successful_test(test_output.s, m)
  ELSE handle_test_error(test_output.s, m)

Ok(s) == [ok |-> TRUE, s |-> s]
Err(s) == [ok |-> FALSE, s |-> s]

\* __execute_test_with_timeout once the child was spawned.  wait_with_output
\* is a blocking call, so the future is ready at its first poll and the
\* Elapsed branch cannot be taken: a runner that hangs blocks the worker.
\* how is "exit" (the runner ended), "wait_error" or "elapsed".
execute_test_with_timeout(how, run) ==
  IF how = "wait_error" THEN Err(<<"Failed to get test output", "io error">>)
  ELSE IF how = "elapsed"
  THEN Err(<<"Test", "timed out", "after", "5", "seconds", "(likely infinite loop)">>)
  ELSE IF run.code = 0 THEN Ok(run.out)
  ELSE Err(run.out)

\* run_targeted_tests; how is "exit", "spawn_error" or "wait_error"
run_targeted_tests(f, how, run) ==
  IF ~get_target_test_file(f)
  THEN Ok(<<"had no matches", "- no test file found">>)
  ELSE IF how = "spawn_error"
  THEN Err(<<"Failed to spawn", "targeted test command:", "io error">>)
  ELSE execute_test_with_timeout(how, run)

\* __handle_worker_timeout: the synthesized result
handle_worker_timeout(m) ==
  TestResult(FALSE, <<"Worker timeout after", "10", "seconds",
                      "(likely infinite loop mutation)">>, m)

\* __is_system_error
is_system_error(output) ==
  \/ starts_with(output, "TIMEOUT:")
  \/ starts_with(output, "FILE_ERROR:")
  \/ starts_with(output, "EXECUTION_ERROR:")

\* __is_compilation_error
is_compilation_error(output) ==
  \/ contains(output, "compilation")
  \/ contains(output, "syntax")
  \/ contains(output, "SyntaxError")
  \/ contains(output, "TypeError")
  \/ contains(output, "ReferenceError")

\* __classify_kill_type
classify_kill_type(test_result) ==
  IF test_result.success THEN "Survived"
  ELSE IF is_system_error(test_result.output) \/ is_compilation_error(test_result.output)
       THEN "CompileError"
  ELSE "BehavioralKill"

\* ------------------------------------------------------------ catalog files
\* The text of a file as the loader sees it: str::lines gives a sequence of
\* lines, a line is <<indent, text>>, and str::trim drops the indent.
trim(l) == l[2]
OriginalLines == << <<0, "x">>, <<1, "y">> >>

\* fs::read_to_string(..).lines() of a file of the source tree
read_lines(content) == IF content = ORIG THEN OriginalLines ELSE <<>>

\* Texts a catalog file can hold, compared with the original: the same
\* text, line 2 re-indented, line 2 changed, line 1 changed, a line added at
\* the end, the last line removed.
SameText == OriginalLines
ReindentedText == << <<0, "x">>, <<0, "y">> >>
ChangedText == << <<0, "x">>, <<1, "z">> >>
ChangedFirstText == << <<0, "w">>, <<1, "y">> >>
AppendedText == << <<0, "x">>, <<1, "y">>, <<0, "z">> >>
CutText == << <<0, "x">> >>
MutantTexts ==
  {SameText, ReindentedText, ChangedText, ChangedFirstText, AppendedText, CutText}

\* An entry of .mutations/typescript: the file stem split at '.', the
\* extension, and the text of the file.
Entry(parts, ext, text) == [parts |-> parts, ext |-> ext, text |-> text]
NumberNames == <<"1", "2", "3", "4", "5", "6">>

\* The entries the loader is run on: mutants of "a" with every text, a
\* mutant of "b", a mutant of "o" (a file that is not below the source
\* directory), two names that are not mutant names, and a file of another
\* extension.
CatalogEntries ==
  {Entry(<<"a", "mutant", n>>, "ts", x) : n \in {"1", "2"}, x \in MutantTexts}
  \cup {Entry(<<"b", "mutant", "1">>, "ts", ChangedText),
        Entry(<<"o", "mutant", "1">>, "ts", ChangedText),
        Entry(<<"a", "notes">>, "ts", ChangedText),
        Entry(<<"a", "orig", "1">>, "ts", ChangedText),
        Entry(<<"a", "mutant", "3">>, "md", ChangedText)}

\* What fs::read_dir can yield: files of pairwise different names, in any
\* order.
Catalogs ==
  {c \in UNION {[1..n -> CatalogEntries] : n \in 0..MaxCatalog} :
     \A i, j \in 1..Len(c) :
        (c[i].parts = c[j].parts /\ c[i].ext = c[j].ext) => i = j}

\* The catalog behind Mutations: a file that is not a mutant, then one
\* mutant file per mutation, each with one changed line.
RunCatalog ==
  <<Entry(<<"a", "notes">>, "ts", ChangedText)>> \o
  [m \in Mutations |-> Entry(<<FileOf(m), "mutant", NumberNames[m]>>, "ts", ChangedText)]

\* A catalog with a mutant of a file that is not below the source directory
UnresolvedCatalog == <<Entry(<<"o", "mutant", "1">>, "ts", ChangedText)>>

file_extension == "ts"

\* -------------------------------------------------------------------- state
VARIABLES
  mpc,         \* main(): where the parent program is
  top,         \* W/<t> for each top-level child: "absent", "symlink", "copy"
  fs,          \* content of every file of the developer's tree and of W
  faults,      \* environment events so far: I/O errors, crashes, a request
               \* that takes 10 s, a handle that turns 30 s old
  tpc,         \* dispatcher task of mutation m: where it is
  tworker,     \* the worker handle task m has checked out (0: none)
  tresult,     \* what worker.execute_mutation returned to task m
  tfinal,      \* the MutationResult (or error) of task m
  permits,     \* free permits of the semaphore
  lock,        \* holder of the available_workers mutex (0: free)
  available,   \* available_workers: deque of worker handles
  hstate,      \* worker handle: "none", "deque", "held", "shutting" (inside
               \* shutdown()), "shutdown", "dropped"
  wproc,       \* worker child process: "unspawned", "running", "exited"
  wpc,         \* worker process: where it is in main/execute_mutation
  wreq,        \* the mutation the worker is handling (0: none)
  worig,       \* original_content read in step 1
  wres,        \* the TestResult the worker is about to emit
  wrestorefail,\* the restore write of the current request failed
  wrun,        \* how the test runner of the current request ended
  inbox,       \* worker stdin: messages not yet read
  outbox,      \* worker stdout: responses not yet received by the parent
  executions,  \* WorkerProcess.executions
  aged,        \* created_at.elapsed() >= 30 s
  timedout,    \* the workers whose request hit the parent's timeout
  catalog,     \* the files of .mutations/typescript, in read_dir order
  next_entry,  \* load_universalmutator_mutations: the entry the loop is at
  mutations,   \* load_universalmutator_mutations: the Vec<Mutation> built
  mutation_id_counter,
  report,      \* what generate_report printed and returned
  \* klep-mutation-v2 (MutationRunner, SafeFileManager, MutationCache)
  safe_pc,     \* run_mutations_safely: where it is ("idle": not called)
  safe_mutations,     \* the Vec<Mutation> it was given
  source_files,       \* content of the source files
  at_prepare,         \* history: content each file had when it was prepared
  original_contents,  \* SafeFileManagerInner.original_contents
  temp_copies,        \* content of the temporary copy of each file
  task_pc,            \* future of mutation m: "queued", "testing", "done"
  task_hash,          \* its content_hash
  tokens,             \* the RestorationToken it holds
  task_result,        \* what run_single_mutation_safely returned
  semaphore,          \* free permits of MutationRunner.semaphore
  content_hash_cache, \* MutationCache.content_hash_cache
  mutation_cache      \* MutationCache.mutation_cache

vars == <<mpc, top, fs, faults, tpc, tworker, tresult, tfinal, permits, lock,
          available, hstate, wproc, wpc, wreq, worig, wres, wrestorefail, wrun,
          inbox, outbox, executions, aged, timedout,
          catalog, next_entry, mutations, mutation_id_counter, report,
          safe_pc, safe_mutations, source_files, at_prepare, original_contents,
          temp_copies, task_pc, task_hash, tokens, task_result, semaphore,
          content_hash_cache, mutation_cache>>

wsvars == <<top, fs>>
taskvars == <<tpc, tworker, tresult, tfinal>>
poolvars == <<permits, lock, available>>
handlevars == <<hstate, executions, aged>>
procvars == <<wproc, wpc, wreq, worig, wres, wrestorefail, wrun, inbox, outbox>>
loadvars == <<catalog, next_entry, mutations, mutation_id_counter>>
safevars == <<safe_pc, safe_mutations, source_files, at_prepare, original_contents,
              temp_copies, task_pc, task_hash, tokens, task_result, semaphore,
              content_hash_cache, mutation_cache>>

Range(q) == {q[i] : i \in 1..Len(q)}
NoContent == <<"none">>
NoFinal == [kind |-> "none", kill_type |-> "none", killed |-> FALSE,
            test_output |-> <<>>, id |-> 0]
NoReturn == [kind |-> "none", result |-> NoResult]
NoRun == [how |-> "none", code |-> 0, out |-> <<>>]
NoReport == [summary |-> <<>>, per_file_stats |-> <<>>, warnings |-> <<>>]

\* ---------------------------------------------- klep-mutation-v2: the data
\* Source files are texts of pieces; a span counts pieces.
SafeFiles == <<"a", "b">>
SourceTexts == {<<"x", "5">>, <<"y", "5">>}

\* types.rs Mutation: file, span_start, span_end, mutated.  on_boundary
\* tells whether the span's byte offsets fall on character boundaries.
SafeMutation(file, span_start, span_end, mutated, on_boundary) ==
  [file |-> file, span_start |-> span_start, span_end |-> span_end,
   mutated |-> mutated, on_boundary |-> on_boundary]
SafeMutationPool ==
  { SafeMutation("a", 0, 1, "z", TRUE),
    SafeMutation("a", 1, 2, "9", TRUE),
    SafeMutation("b", 0, 1, "z", TRUE),
    SafeMutation("a", 1, 3, "9", TRUE),
    SafeMutation("b", 1, 2, "9", FALSE) }

NoToken == [file |-> "", original_content |-> NoContent]
NoHash == <<"no hash">>
NoHashEntry == [hash |-> NoHash, fresh |-> FALSE]
NoCached == [success |-> FALSE, output |-> <<>>, stale |-> FALSE, tested |-> NoContent]
NoTaskResult == [kind |-> "none", killed |-> FALSE, kill_type |-> "none",
                 test_output |-> <<>>, from_cache |-> FALSE, tested |-> NoContent]

\* ContentHash::from_content: equal contents have equal hashes; two
\* different contents are taken to have different 64-bit hashes
from_content(content) == <<"hash">> \o content

\* content[..start] + mutated + content[end..]
splice(content, mu) ==
  SubSeq(content, 1, mu.span_start) \o <<mu.mutated>>
    \o SubSeq(content, mu.span_end + 1, Len(content))
SafeContents ==
  SourceTexts \cup {splice(c, mu) : c \in SourceTexts,
                      mu \in {p \in SafeMutationPool : p.span_end <= 2}}
SafeHashes == {from_content(c) : c \in SafeContents}

\* run_mutations_safely has not been called
SafeIdle ==
  /\ safe_pc = "idle"
  /\ safe_mutations = <<>>
  /\ source_files = <<>>
  /\ at_prepare = <<>>
  /\ original_contents = <<>>
  /\ temp_copies = <<>>
  /\ task_pc = <<>>
  /\ task_hash = <<>>
  /\ tokens = <<>>
  /\ task_result = <<>>
  /\ semaphore = 0
  /\ content_hash_cache = <<>>
  /\ mutation_cache = <<>>

Init ==
  /\ mpc = "symlink_project_files"
  /\ top = [t \in Tops |-> "absent"]
  /\ fs = [l \in Locs |-> IF l[1] = "dev" THEN ORIG ELSE ABSENT]
  /\ faults = 0
  /\ tpc = [m \in Mutations |-> "start"]
  /\ tworker = [m \in Mutations |-> 0]
  /\ tresult = [m \in Mutations |-> NoReturn]
  /\ tfinal = [m \in Mutations |-> NoFinal]
  /\ permits = 0
  /\ lock = 0
  /\ available = <<>>
  /\ hstate = [w \in Workers |-> "none"]
  /\ wproc = [w \in Workers |-> "unspawned"]
  /\ wpc = [w \in Workers |-> "none"]
  /\ wreq = [w \in Workers |-> 0]
  /\ worig = [w \in Workers |-> NoContent]
  /\ wres = [w \in Workers |-> NoResult]
  /\ wrestorefail = [w \in Workers |-> FALSE]
  /\ wrun = [w \in Workers |-> NoRun]
  /\ inbox = [w \in Workers |-> <<>>]
  /\ outbox = [w \in Workers |-> <<>>]
  /\ executions = [w \in Workers |-> 0]
  /\ aged = [w \in Workers |-> FALSE]
  /\ timedout = {}
  /\ catalog \in {RunCatalog, UnresolvedCatalog}
  /\ next_entry = 1
  /\ mutations = <<>>
  /\ mutation_id_counter = 1
  /\ report = NoReport
  /\ SafeIdle

\* ------------------------------------------------------- workspace builder
\* create_temp_workspace, first half: __symlink_project_files.  Whether the
\* host can make symlinks is an input.
SymlinkProjectFiles ==
  /\ mpc = "symlink_project_files"
  /\ \E symlinkOk \in BOOLEAN :
       LET st == symlink_project_files([top |-> top, fs |-> fs], symlinkOk)
       IN /\ top' = st.top
          /\ fs' = st.fs
          /\ IF symlinkOk THEN faults' = faults
             ELSE faults < MaxFaults /\ faults' = faults + 1
  /\ mpc' = "setup_source_directory"
  /\ UNCHANGED <<taskvars, poolvars, handlevars, procvars, timedout, loadvars, report, safevars>>

\* create_temp_workspace, second half: __setup_source_directory_for_mutation
SetupSourceDirectory ==
  /\ mpc = "setup_source_directory"
  /\ LET st == setup_source_directory_for_mutation([top |-> top, fs |-> fs])
     IN /\ top' = st.top
        /\ fs' = st.fs
  /\ mpc' = "generate_mutations"
  /\ UNCHANGED <<faults, taskvars, poolvars, handlevars, procvars, timedout,
                 loadvars, report, safevars>>

\* Any I/O error of the workspace build aborts startup (the ? operators of
\* create_temp_workspace).
WorkspaceBuildFails ==
  /\ mpc \in {"symlink_project_files", "setup_source_directory"}
  /\ faults < MaxFaults
  /\ faults' = faults + 1
  /\ mpc' = "aborted"
  /\ UNCHANGED <<wsvars, taskvars, poolvars, handlevars, procvars, timedout,
                 loadvars, report, safevars>>

\* ---------------------------------------------------- catalog loader steps
\* find_mutation_difference: the first pair of lines, of the zip of the
\* two texts, that differ and still differ when trimmed; (1, "unknown",
\* "unknown") when there is none.
find_mutation_difference(original, mutant) ==
  LET n == IF Len(original) <= Len(mutant) THEN Len(original) ELSE Len(mutant)
      differing == {i \in 1..n : /\ original[i] # mutant[i]
                                 /\ trim(original[i]) # trim(mutant[i])}
  IN IF differing # {}
     THEN LET i == CHOOSE i \in differing : \A j \in differing : i <= j
          IN [line |-> i, original |-> trim(original[i]), mutated |-> trim(mutant[i])]
     ELSE [line |-> 1, original |-> "unknown", mutated |-> "unknown"]

\* find_original_file / __recursive_file_search below the source directory
\* of the workspace
find_original_file(base_filename, st) ==
  IF /\ base_filename \in SourceFiles
     /\ st.fs[Resolve(st.top, base_filename)] # ABSENT
  THEN [ok |-> TRUE, path |-> base_filename]
  ELSE [ok |-> FALSE, path |-> ""]

NoMutation ==
  [id |-> 0, file |-> "", line |-> 0, original |-> "", mutated |-> <<>>]

\* parse_universalmutator_file: Ok(None), Err or Ok(Some(mutation)); the id
\* "unimut_<n>" is n.
parse_universalmutator_file(e, id_counter, st) ==
  IF Len(e.parts) < 3 \/ e.parts[Len(e.parts) - 1] # "mutant"
  THEN [kind |-> "none", mutation |-> NoMutation]
  ELSE LET found == find_original_file(e.parts[1], st)
       IN IF ~found.ok
          THEN [kind |-> "err", mutation |-> NoMutation]
          ELSE LET d == find_mutation_difference(
                          read_lines(st.fs[Resolve(st.top, found.path)]), e.text)
               IN [kind |-> "some",
                   mutation |-> [id |-> id_counter, file |-> found.path,
                                 line |-> d.line, original |-> d.original,
                                 mutated |-> e.text]]

\* The parse of the entry the loop of load_universalmutator_mutations is at
ParsedEntry ==
  parse_universalmutator_file(catalog[next_entry], mutation_id_counter,
                              [top |-> top, fs |-> fs])

\* load_universalmutator_mutations, a loop turn that goes on to the next
\* entry without a mutation: the extension is not the language's
\* (continue), or the name is not a mutant's name (Ok(None)).
LoadSkip ==
  /\ mpc = "generate_mutations"
  /\ next_entry <= Len(catalog)
  /\ \/ catalog[next_entry].ext # file_extension
     \/ ParsedEntry.kind = "none"
  /\ next_entry' = next_entry + 1
  /\ UNCHANGED <<mpc, wsvars, faults, taskvars, poolvars, handlevars, procvars, timedout,
                 catalog, mutations, mutation_id_counter, report, safevars>>

\* load_universalmutator_mutations, a loop turn that pushes a mutation
LoadPush ==
  /\ mpc = "generate_mutations"
  /\ next_entry <= Len(catalog)
  /\ catalog[next_entry].ext = file_extension
  /\ ParsedEntry.kind = "some"
  /\ mutations' = Append(mutations, ParsedEntry.mutation)
  /\ mutation_id_counter' = mutation_id_counter + 1
  /\ next_entry' = next_entry + 1
  /\ UNCHANGED <<mpc, wsvars, faults, taskvars, poolvars, handlevars, procvars, timedout,
                 catalog, report, safevars>>

\* load_universalmutator_mutations, a loop turn whose parse is an Err: the ?
\* returns it, generate_mutations and main return it, and the mutations
\* pushed so far are dropped.
LoadFails ==
  /\ mpc = "generate_mutations"
  /\ next_entry <= Len(catalog)
  /\ catalog[next_entry].ext = file_extension
  /\ ParsedEntry.kind = "err"
  /\ mutations' = <<>>
  /\ mpc' = "aborted"
  /\ UNCHANGED <<wsvars, faults, taskvars, poolvars, handlevars, procvars, timedout,
                 catalog, next_entry, mutation_id_counter, report, safevars>>

\* load_universalmutator_mutations returns Ok(mutations) at the end of the
\* directory; main goes on to run_mutation_tests.
LoadReturns ==
  /\ mpc = "generate_mutations"
  /\ next_entry > Len(catalog)
  /\ mpc' = "pool_new"
  /\ UNCHANGED <<wsvars, faults, taskvars, poolvars, handlevars, procvars,
                 timedout, loadvars, report, safevars>>

\* ------------------------------------------------------------ wire messages
MutationRequest(m) == [kind |-> "MutationRequest", m |-> m]
Shutdown == [kind |-> "Shutdown", m |-> 0]
Response(kind, result) == [kind |-> kind, result |-> result]

\* ------------------------------------------------------------ worker handle
\* WorkerProcess::is_healthy; status is what child.try_wait() returns:
\* "exited" (Ok(Some)), "running" (Ok(None)) or "error" (Err)
is_healthy_always(status, isAged, execs) == TRUE
is_healthy(status, isAged, execs) ==
  IF status = "exited" THEN FALSE
  ELSE IF status = "running" THEN ~isAged /\ execs < MaxExecutions
  ELSE FALSE

\* child.try_wait() of the handle of w
try_wait(w) == IF wproc[w] = "exited" THEN "exited" ELSE "running"

Healthy(w) == is_healthy(try_wait(w), aged[w], executions[w])

MidRequest(w) == wpc[w] \in {"read", "mutated", "reply"}


\* The child processes ws end (SIGKILL, crash): what they had in memory and
\* on stdin is gone, what they had already written to stdout stays.  A
\* process that has exited is not touched.
ProcKilled(ws) ==
  LET hit(w) == w \in ws /\ wproc[w] = "running" IN
  /\ wproc' = [w \in Workers |-> IF hit(w) THEN "exited" ELSE wproc[w]]
  /\ wpc' = [w \in Workers |-> IF hit(w) THEN "dead" ELSE wpc[w]]
  /\ wreq' = [w \in Workers |-> IF hit(w) THEN 0 ELSE wreq[w]]
  /\ worig' = [w \in Workers |-> IF hit(w) THEN NoContent ELSE worig[w]]
  /\ wres' = [w \in Workers |-> IF hit(w) THEN NoResult ELSE wres[w]]
  /\ wrestorefail' = [w \in Workers |-> IF hit(w) THEN FALSE ELSE wrestorefail[w]]
  /\ wrun' = [w \in Workers |-> IF hit(w) THEN NoRun ELSE wrun[w]]
  /\ inbox' = [w \in Workers |-> IF hit(w) THEN <<>> ELSE inbox[w]]
  /\ UNCHANGED outbox

\* WorkerProcess::shutdown, first half: the Shutdown message is sent (it
\* reaches the child's stdin if the child still runs) and the 100 ms sleep
\* starts.
ShutdownSend(w) ==
  /\ hstate' = [hstate EXCEPT ![w] = "shutting"]
  /\ inbox' = [inbox EXCEPT ![w] = IF wproc[w] = "running" THEN Append(@, Shutdown) ELSE @]
  /\ UNCHANGED <<wproc, wpc, wreq, worig, wres, wrestorefail, wrun, outbox>>

\* WorkerProcess::shutdown, second half: after the sleep the child is
\* force-killed.
ShutdownKill_without_kill(w) ==
  /\ hstate' = [hstate EXCEPT ![w] = "shutdown"]
  /\ UNCHANGED procvars
ShutdownKill(w) ==
  /\ ProcKilled({w})
  /\ hstate' = [hstate EXCEPT ![w] = "shutdown"]

NextWorker == CHOOSE w \in Workers :
                /\ wproc[w] = "unspawned"
                /\ \A v \in Workers : v < w => wproc[v] # "unspawned"
CanSpawn == \E w \in Workers : wproc[w] = "unspawned"

\* ------------------------------------------------------------------- pool
\* WorkerPool::new: pool_size workers are spawned and queued, each after its
\* Ready; the semaphore gets pool_size permits.
PoolNew ==
  /\ mpc = "pool_new"
  /\ mpc' = "run"
  /\ permits' = pool_size
  /\ available' = [i \in 1..pool_size |-> i]
  /\ hstate' = [w \in Workers |-> IF w <= pool_size THEN "deque" ELSE hstate[w]]
  /\ wproc' = [w \in Workers |-> IF w <= pool_size THEN "running" ELSE wproc[w]]
  /\ wpc' = [w \in Workers |-> IF w <= pool_size THEN "idle" ELSE wpc[w]]
  /\ UNCHANGED <<wsvars, faults, taskvars, lock, executions, aged, wreq, worig,
                 wres, wrestorefail, wrun, inbox, outbox, timedout, loadvars, report, safevars>>

\* WorkerPool::new fails when a worker cannot be spawned
PoolNewFails ==
  /\ mpc = "pool_new"
  /\ faults < MaxFaults
  /\ faults' = faults + 1
  /\ mpc' = "aborted"
  /\ UNCHANGED <<wsvars, taskvars, poolvars, handlevars, procvars, timedout,
                 loadvars, report, safevars>>

\* WorkerPool::execute_mutation, self.semaphore.acquire()
can_acquire_always(p) == TRUE
can_acquire(p) == p > 0

Acquire(t) ==
  /\ mpc = "run"
  /\ tpc[t] = "start"
  /\ can_acquire(permits)
  /\ permits' = permits - 1
  /\ tpc' = [tpc EXCEPT ![t] = "get_worker"]
  /\ UNCHANGED <<mpc, wsvars, faults, tworker, tresult, tfinal, lock, available,
                 handlevars, procvars, timedout, loadvars, report, safevars>>

\* get_worker is entered by taking the available_workers mutex
\* (lock().await); the guard lives until get_worker returns, so the task
\* keeps the mutex across the awaits of the loop (shutdown of an unhealthy
\* worker) and of WorkerProcess::new.
HasLock(t) ==
  \/ tpc[t] = "get_worker" /\ lock = 0
  \/ tpc[t] = "pop" /\ lock = t

\* WorkerProcess::execute_mutation, __send_mutation_request.  The writer
\* task of a handle that get_worker just found healthy is alive, so the
\* channel send succeeds; the line reaches the child's stdin if the child
\* still runs.
SendTo(w, t) ==
  [v \in Workers |->
     IF v = w /\ wproc[w] = "running" THEN Append(inbox[v], MutationRequest(t))
     ELSE inbox[v]]

\* available.pop_front(): what is left in the deque
pop_front_keeps(q) == q
pop_front(q) == Tail(q)

\* get_worker: one turn of the while loop with a worker at the front.  A
\* healthy one is returned (the guard is dropped) and the request is sent
\* to it; an unhealthy one is shut down and the loop goes on, still holding
\* the lock.
GetWorkerPop(t) ==
  /\ HasLock(t)
  /\ available # <<>>
  /\ LET w == Head(available) IN
       /\ available' = pop_front(available)
       /\ IF Healthy(w)
          THEN /\ tworker' = [tworker EXCEPT ![t] = w]
               /\ hstate' = [hstate EXCEPT ![w] = "held"]
               /\ lock' = 0
               /\ tpc' = [tpc EXCEPT ![t] = "wait"]
               /\ inbox' = SendTo(w, t)
               /\ UNCHANGED <<wproc, wpc, wreq, worig, wres, wrestorefail, wrun,
                              outbox>>
          ELSE /\ ShutdownSend(w)
               /\ lock' = t
               /\ tpc' = [tpc EXCEPT ![t] = "pop_shutdown"]
               /\ tworker' = [tworker EXCEPT ![t] = w]
  /\ UNCHANGED <<mpc, wsvars, faults, tresult, tfinal, permits, executions, aged,
                 timedout, loadvars, report, safevars>>

\* get_worker: worker.shutdown() of the unhealthy worker returns and the
\* loop goes on
GetWorkerShutdownDone(t) ==
  /\ tpc[t] = "pop_shutdown"
  /\ ShutdownKill(tworker[t])
  /\ tworker' = [tworker EXCEPT ![t] = 0]
  /\ tpc' = [tpc EXCEPT ![t] = "pop"]
  /\ UNCHANGED <<mpc, wsvars, faults, tresult, tfinal, poolvars, executions, aged,
                 timedout, loadvars, report, safevars>>

\* get_worker: the deque is empty, WorkerProcess::new starts a child
SpawnStart(t) ==
  /\ HasLock(t)
  /\ available = <<>>
  /\ CanSpawn
  /\ LET w == NextWorker IN
       /\ wproc' = [wproc EXCEPT ![w] = "running"]
       /\ wpc' = [wpc EXCEPT ![w] = "boot"]
       /\ tworker' = [tworker EXCEPT ![t] = w]
  /\ lock' = t
  /\ tpc' = [tpc EXCEPT ![t] = "spawning"]
  /\ UNCHANGED <<mpc, wsvars, faults, tresult, tfinal, permits, available, handlevars,
                 wreq, worig, wres, wrestorefail, wrun, inbox, outbox, timedout,
                 loadvars, report, safevars>>

\* WorkerProcess::new: the first line of the child is Ready; get_worker
\* returns the new handle and the request is sent to it
recv_ready_skipped(lines) == TRUE
recv_ready(lines) == lines # <<>> /\ Head(lines).kind = "Ready"

SpawnDone(t) ==
  /\ tpc[t] = "spawning"
  /\ LET w == tworker[t] IN
       /\ recv_ready(outbox[w])
       /\ outbox' = [outbox EXCEPT ![w] = SubSeq(@, 2, Len(@))]
       /\ hstate' = [hstate EXCEPT ![w] = "held"]
       /\ inbox' = SendTo(w, t)
  /\ lock' = 0
  /\ tpc' = [tpc EXCEPT ![t] = "wait"]
  /\ UNCHANGED <<mpc, wsvars, faults, tworker, tresult, tfinal, permits, available,
                 executions, aged, wproc, wpc, wreq, worig, wres, wrestorefail, wrun,
                 timedout, loadvars, report, safevars>>

\* get_worker returns Err: the child cannot be spawned, or it ends before
\* its Ready ("Worker process failed to start").  execute_mutation returns
\* the error and drops the permit; __execute_single_mutation returns it.
ErrFinal(m, msg) == [kind |-> "err", kill_type |-> "none", killed |-> FALSE,
                     test_output |-> msg, id |-> m]

SpawnFails(t) ==
  /\ \/ /\ HasLock(t)
        /\ available = <<>>
        /\ tfinal' = [tfinal EXCEPT ![t] =
                        ErrFinal(t, <<"Failed to spawn pathogen worker">>)]
     \/ /\ tpc[t] = "spawning"
        /\ wproc[tworker[t]] = "exited"
        /\ outbox[tworker[t]] = <<>>
        /\ tfinal' = [tfinal EXCEPT ![t] =
                        ErrFinal(t, <<"Worker process failed to start">>)]
  /\ lock' = 0
  /\ permits' = permits + 1
  /\ tworker' = [tworker EXCEPT ![t] = 0]
  /\ tpc' = [tpc EXCEPT ![t] = "done"]
  /\ UNCHANGED <<mpc, wsvars, faults, tresult, available, handlevars, procvars,
                 timedout, loadvars, report, safevars>>

\* __process_worker_response
ErrReturn(msg) == [kind |-> "err", result |-> TestResult(FALSE, msg, 0)]

process_worker_response(resp) ==
  IF resp.kind = "TestResult" THEN [kind |-> "ok", result |-> resp.result]
  ELSE IF resp.kind = "Error" THEN ErrReturn(<<"Worker error:">>)
  ELSE ErrReturn(<<"Unexpected response from worker:", resp.kind>>)

\* __wait_for_worker_response: a line arrives within the timeout
ReceiveResponse(t) ==
  /\ tpc[t] = "wait"
  /\ LET w == tworker[t] IN
       /\ outbox[w] # <<>>
       /\ outbox' = [outbox EXCEPT ![w] = Tail(outbox[w])]
       /\ tresult' = [tresult EXCEPT ![t] = process_worker_response(Head(outbox[w]))]
       /\ executions' = [executions EXCEPT ![w] =
                           IF Head(outbox[w]).kind = "TestResult" THEN @ + 1 ELSE @]
  /\ tpc' = [tpc EXCEPT ![t] = "return"]
  /\ UNCHANGED <<mpc, wsvars, faults, tworker, tfinal, poolvars, hstate, aged,
                 wproc, wpc, wreq, worig, wres, wrestorefail, wrun, inbox,
                 timedout, loadvars, report, safevars>>

\* __wait_for_worker_response: the child's stdout closed ("Worker process died")
WorkerDied(t) ==
  /\ tpc[t] = "wait"
  /\ wproc[tworker[t]] = "exited"
  /\ outbox[tworker[t]] = <<>>
  /\ tresult' = [tresult EXCEPT ![t] = ErrReturn(<<"Worker process died">>)]
  /\ tpc' = [tpc EXCEPT ![t] = "return"]
  /\ UNCHANGED <<mpc, wsvars, faults, tworker, tfinal, poolvars, handlevars, procvars,
                 timedout, loadvars, report, safevars>>

\* __execute_with_timeout: tokio::time::timeout is armed while the task
\* waits for the worker's line.
timeout_never(state) == FALSE
timeout_armed(state) == state = "wait"

\* __handle_worker_timeout: self.child.kill().await
child_kill_skipped(w) == UNCHANGED procvars
child_kill(w) == ProcKilled({w})

\* __execute_with_timeout elapsed: __handle_worker_timeout kills the child
\* and fabricates the result.  The 10 s may pass at any point of the
\* worker's handling of the request.
TimeoutFires(t) ==
  /\ timeout_armed(tpc[t])
  /\ wproc[tworker[t]] = "running"
  /\ child_kill(tworker[t])
  /\ timedout' = timedout \cup {tworker[t]}
  /\ tresult' = [tresult EXCEPT ![t] = [kind |-> "ok", result |-> handle_worker_timeout(t)]]
  /\ tpc' = [tpc EXCEPT ![t] = "return"]
  /\ UNCHANGED <<mpc, wsvars, tworker, tfinal, poolvars, handlevars, loadvars, report, safevars>>

\* A request takes 10 s although its worker is not stuck: a slow test run,
\* counted as an environment event.
WorkerTimeout(t) ==
  /\ faults < MaxFaults
  /\ faults' = faults + 1
  /\ TimeoutFires(t)

\* The 10 s pass for a request whose worker is stuck: the worker is inside
\* run_targeted_tests, blocked on a test runner that does not end.
HungTimeout(t) ==
  /\ tworker[t] # 0
  /\ wpc[tworker[t]] = "mutated"
  /\ TimeoutFires(t)
  /\ UNCHANGED faults

\* available_workers.push_back(worker)
push_back_at_front(q, w) == <<w>> \o q
push_back(q, w) == Append(q, w)

\* return_worker: where the handle goes
return_worker_pushes(healthy) == "deque"
return_worker(healthy) == IF healthy THEN "deque" ELSE "shutdown"

\* WorkerPool::execute_mutation after worker.execute_mutation: the result,
\* Ok or Err, is kept and the worker is returned before it is passed on.
handle_after_request_try(kind, healthy) ==
  IF kind = "err" THEN "dropped" ELSE return_worker(healthy)
handle_after_request(kind, healthy) == return_worker(healthy)

\* __execute_single_mutation: the MutationResult of a TestResult
\* for the mutation the task was given
MutationResult(mutation, r) ==
  LET kill_type == classify_kill_type(r)
  IN [kind |-> "ok", kill_type |-> kill_type, killed |-> kill_type # "Survived",
      test_output |-> r.output, id |-> mutation]

\* The end of WorkerPool::execute_mutation and of __execute_single_mutation:
\* the permit is dropped and the result is classified.
FinishTask(t) ==
  /\ permits' = permits + 1
  /\ tfinal' = [tfinal EXCEPT ![t] =
                  IF tresult[t].kind = "ok" THEN MutationResult(t, tresult[t].result)
                  ELSE ErrFinal(t, tresult[t].result.output)]
  /\ tresult' = [tresult EXCEPT ![t] = NoReturn]
  /\ tworker' = [tworker EXCEPT ![t] = 0]
  /\ tpc' = [tpc EXCEPT ![t] = "done"]

\* WorkerPool::execute_mutation after worker.execute_mutation:
\* return_worker pushes a healthy worker back and the task ends, or starts
\* the shutdown of an unhealthy one.
ReturnWorker(t) ==
  /\ tpc[t] = "return"
  /\ LET w == tworker[t]
         to == handle_after_request(tresult[t].kind, Healthy(w))
     IN \/ /\ to = "deque"
           /\ lock = 0
           /\ available' = push_back(available, w)
           /\ hstate' = [hstate EXCEPT ![w] = "deque"]
           /\ FinishTask(t)
           /\ UNCHANGED <<procvars>>
        \/ /\ to = "shutdown"
           /\ ShutdownSend(w)
           /\ tpc' = [tpc EXCEPT ![t] = "return_shutdown"]
           /\ UNCHANGED <<available, permits, tfinal, tresult, tworker>>
        \/ /\ to = "dropped"
           /\ ProcKilled({w})
           /\ hstate' = [hstate EXCEPT ![w] = "dropped"]
           /\ FinishTask(t)
           /\ UNCHANGED available
  /\ UNCHANGED <<mpc, wsvars, faults, lock, executions, aged, timedout, loadvars, report, safevars>>

\* return_worker: worker.shutdown() returns, and the task ends
ReturnShutdownDone(t) ==
  /\ tpc[t] = "return_shutdown"
  /\ ShutdownKill(tworker[t])
  /\ FinishTask(t)
  /\ UNCHANGED <<mpc, wsvars, faults, lock, available, executions, aged,
                 timedout, loadvars, report, safevars>>

\* run_mutations returns once every future has completed: Ok with all the
\* results, or the first Err; on Err run_mutation_tests returns, the pool is
\* dropped and kill_on_drop ends the children.
\* The orders in which the futures of run_mutations can complete.
CompletionOrders ==
  {o \in [1..NumMutations -> Mutations] :
     \A i, j \in 1..NumMutations : o[i] = o[j] => i = j}

\* run_mutations: futures.collect().await, the results of the tasks in the
\* order o of their completion
results_collected(o) == [i \in 1..NumMutations |-> tfinal[o[i]]]

push_results_skipping_errors(rs) ==
  [kind |-> "Ok", list |-> SelectSeq(rs, LAMBDA r : r.kind = "ok")]

\* run_mutations: for result in results { mutation_results.push(result?) }
push_results(rs) ==
  IF \E i \in 1..Len(rs) : rs[i].kind # "ok"
  THEN [kind |-> "Err", list |-> <<>>]
  ELSE [kind |-> "Ok", list |-> rs]

Collect ==
  /\ mpc = "run"
  /\ \A t \in Mutations : tpc[t] = "done"
  /\ IF \A o \in CompletionOrders : push_results(results_collected(o)).kind = "Ok"
     THEN /\ mpc' = "shutdown"
          /\ UNCHANGED <<available, hstate, procvars>>
     ELSE /\ mpc' = "failed"
          /\ ProcKilled(Range(available))
          /\ hstate' = [w \in Workers |->
                          IF w \in Range(available) THEN "dropped" ELSE hstate[w]]
          /\ available' = <<>>
  /\ UNCHANGED <<wsvars, faults, taskvars, permits, lock, executions, aged,
                 timedout, loadvars, report, safevars>>

\* WorkerPool::shutdown: one turn of the loop over available_workers starts
\* the shutdown of the worker at the front; with the deque empty the loop
\* over busy_workers finds nothing (nothing is ever put there) and shutdown
\* returns.
PoolShutdown ==
  /\ mpc = "shutdown"
  /\ IF available = <<>>
     THEN /\ mpc' = "done"
          /\ UNCHANGED <<available, hstate, procvars>>
     ELSE /\ mpc' = "shutdown_grace"
          /\ available' = Tail(available)
          /\ ShutdownSend(Head(available))
  /\ UNCHANGED <<wsvars, faults, taskvars, permits, lock, executions, aged,
                 timedout, loadvars, report, safevars>>

\* WorkerPool::shutdown: worker.shutdown() returns
PoolShutdownDone ==
  /\ mpc = "shutdown_grace"
  /\ \E w \in Workers :
       /\ hstate[w] = "shutting"
       /\ ShutdownKill(w)
  /\ mpc' = "shutdown"
  /\ UNCHANGED <<wsvars, faults, taskvars, poolvars, executions, aged,
                 timedout, loadvars, report, safevars>>

\* ----------------------------------------------------------------- report
\* The result list run_mutations returned, as a function of the mutation.
Results == [t \in {m \in Mutations : tfinal[m].kind = "ok"} |-> tfinal[t]]

\* A rate of the report: an f64 that holds num / den (rounding is not
\* modelled).  (kills as f64 / viable as f64) * 100.0, or 0.0 without a
\* viable mutation.
rate_without_compile_errors_excluded(kills, viable, total) ==
  IF total > 0 THEN [num |-> kills * 100, den |-> total] ELSE [num |-> 0, den |-> 1]
rate(kills, viable, total) ==
  IF viable > 0 THEN [num |-> kills * 100, den |-> viable] ELSE [num |-> 0, den |-> 1]

\* results.iter().filter(|r| matches!(r.kill_type, k)).count() over the
\* results ids
count_kill_type_by_killed_flag(results, ids, k) ==
  Cardinality({t \in ids : IF k = "Survived" THEN ~results[t].killed
                           ELSE results[t].killed})
count_kill_type(results, ids, k) ==
  Cardinality({t \in ids : results[t].kill_type = k})

\* calculate_summary_stats
calculate_summary_stats(results) ==
  LET ids == DOMAIN results
      total == Cardinality(ids)
      behavioral_kills == count_kill_type(results, ids, "BehavioralKill")
      compile_errors == count_kill_type(results, ids, "CompileError")
      survived == count_kill_type(results, ids, "Survived")
      viable_mutations == total - compile_errors
  IN [total |-> total,
      behavioral_kills |-> behavioral_kills,
      compile_errors |-> compile_errors,
      survived |-> survived,
      behavioral_rate |-> rate(behavioral_kills, viable_mutations, total),
      kill_rate |-> IF total > 0
                    THEN [num |-> (behavioral_kills + compile_errors) * 100, den |-> total]
                    ELSE [num |-> 0, den |-> 1]]

\* build_file_stats for the results ids of one file
build_file_stats(file_path, results, ids) ==
  LET total_mutations == Cardinality(ids)
      behavioral_kills == count_kill_type(results, ids, "BehavioralKill")
      compile_errors == count_kill_type(results, ids, "CompileError")
      survived == count_kill_type(results, ids, "Survived")
      viable_mutations == total_mutations - compile_errors
  IN [file_path |-> file_path,
      total_mutations |-> total_mutations,
      behavioral_kills |-> behavioral_kills,
      compile_errors |-> compile_errors,
      survived |-> survived,
      kill_rate |-> rate(behavioral_kills, viable_mutations, total_mutations),
      survived_mutations |-> {t \in ids : results[t].kill_type = "Survived"}]

\* a.kill_rate <= b.kill_rate
rate_le(a, b) == a.num * b.den <= b.num * a.den

\* calculate_per_file_stats: the results are grouped by mutation.file, one
\* record is built per group and the records are sorted by kill rate,
\* lowest first.
calculate_per_file_stats(results) ==
  LET files == {FileOf(t) : t \in DOMAIN results}
      group(f) == {t \in DOMAIN results : FileOf(t) = f}
      rows == {build_file_stats(f, results, group(f)) : f \in files}
  IN CHOOSE q \in [1..Cardinality(rows) -> rows] :
       /\ \A r \in rows : \E i \in DOMAIN q : q[i] = r
       /\ \A i, j \in DOMAIN q : i < j => rate_le(q[i].kill_rate, q[j].kill_rate)

\* detect_and_warn_issues: the warnings it prints, in order
detect_and_warn_issues(stats, results) ==
  LET ids == DOMAIN results
      no_matches_count ==
        Cardinality({t \in ids : contains(results[t].test_output, "had no matches")})
      timeout_count ==
        Cardinality({t \in ids : \/ contains(results[t].test_output, "Worker timeout after")
                                 \/ contains(results[t].test_output, "timed out")})
  IN (IF stats.behavioral_rate.num * 10 >= 995 * stats.behavioral_rate.den
         /\ stats.total > 100
      THEN <<[warning |-> "Suspiciously high kill rate", n |-> 0]>> ELSE <<>>)
     \o (IF no_matches_count > 0
         THEN <<[warning |-> "mutations found no matching test files",
                 n |-> no_matches_count]>> ELSE <<>>)
     \o (IF timeout_count > stats.total \div 20
         THEN <<[warning |-> "mutations timed out", n |-> timeout_count]>> ELSE <<>>)

\* generate_report: what is printed and returned
generate_report(results) ==
  LET summary_stats == calculate_summary_stats(results)
  IN [summary |-> summary_stats,
      per_file_stats |-> calculate_per_file_stats(results),
      warnings |-> detect_and_warn_issues(summary_stats, results)]

\* main: generate_and_save_report after run_mutation_tests returned Ok
GenerateReport ==
  /\ mpc = "done"
  /\ report' = generate_report(Results)
  /\ mpc' = "reported"
  /\ UNCHANGED <<wsvars, faults, taskvars, poolvars, handlevars, procvars, timedout,
                 loadvars, safevars>>

\* ------------------------------------------------------------ environment
\* Time passes: the handle of w becomes 30 s old.  Handles age in the order
\* in which they were created.
Live(w) == hstate[w] \in {"deque", "held"}

Age(w) ==
  /\ Live(w)
  /\ ~aged[w]
  /\ \A v \in Workers : (v < w /\ Live(v)) => aged[v]
  /\ faults < MaxFaults
  /\ faults' = faults + 1
  /\ aged' = [aged EXCEPT ![w] = TRUE]
  /\ UNCHANGED <<mpc, wsvars, taskvars, poolvars, hstate, executions,
                 procvars, timedout, loadvars, report, safevars>>

\* A worker process dies on its own (crash, OOM kill)
Crash(w) ==
  /\ wproc[w] = "running"
  /\ faults < MaxFaults
  /\ faults' = faults + 1
  /\ ProcKilled({w})
  /\ UNCHANGED <<mpc, wsvars, taskvars, poolvars, handlevars, timedout, loadvars, report, safevars>>

\* --------------------------------------------------------- worker process
\* main of pathogen-worker: the Ready line
WorkerReady(w) ==
  /\ wproc[w] = "running"
  /\ wpc[w] = "boot"
  /\ outbox' = [outbox EXCEPT ![w] = Append(@, Response("Ready", NoResult))]
  /\ wpc' = [wpc EXCEPT ![w] = "idle"]
  /\ UNCHANGED <<mpc, wsvars, faults, taskvars, poolvars, handlevars, wproc, wreq,
                 worig, wres, wrestorefail, wrun, inbox, timedout, loadvars, report, safevars>>

\* main reads a Shutdown line: it writes the Shutdown response, leaves the
\* loop and the process exits; lines behind the Shutdown stay unread.
shutdown_arm_without_break == [proc |-> "running", pc |-> "idle"]
shutdown_arm == [proc |-> "exited", pc |-> "done"]

ReadShutdown(w) ==
  /\ wproc[w] = "running"
  /\ wpc[w] = "idle"
  /\ inbox[w] # <<>>
  /\ Head(inbox[w]).kind = "Shutdown"
  /\ outbox' = [outbox EXCEPT ![w] = Append(@, Response("Shutdown", NoResult))]
  /\ inbox' = [inbox EXCEPT ![w] = IF shutdown_arm.proc = "exited" THEN <<>> ELSE Tail(@)]
  /\ wproc' = [wproc EXCEPT ![w] = shutdown_arm.proc]
  /\ wpc' = [wpc EXCEPT ![w] = shutdown_arm.pc]
  /\ UNCHANGED <<mpc, wsvars, faults, taskvars, poolvars, handlevars, wreq, worig,
                 wres, wrestorefail, wrun, timedout, loadvars, report, safevars>>

\* target_file = workspace_dir.join(file_path): file_path is the absolute
\* path of the file below W/src/cli, so the join is that path.
Target(m) == Resolve(top, FileOf(m))

\* A write that fails leaves the file as it was (the open failed) or cut
\* short (the open truncated it and the write failed).
AfterFailedWrite(old) == {old, TRUNC}

\* main reads a MutationRequest line; execute_mutation step 1,
\* __read_original_file
ReadOriginal(w) ==
  /\ wproc[w] = "running"
  /\ wpc[w] = "idle"
  /\ inbox[w] # <<>>
  /\ Head(inbox[w]).kind = "MutationRequest"
  /\ LET m == Head(inbox[w]).m IN
       /\ inbox' = [inbox EXCEPT ![w] = Tail(@)]
       /\ wreq' = [wreq EXCEPT ![w] = m]
       /\ \/ /\ fs[Target(m)] # ABSENT
             /\ worig' = [worig EXCEPT ![w] = fs[Target(m)]]
             /\ wpc' = [wpc EXCEPT ![w] = "read"]
             /\ UNCHANGED <<wres, faults>>
          \/ /\ \/ fs[Target(m)] = ABSENT /\ faults' = faults
                \/ faults < MaxFaults /\ faults' = faults + 1
             /\ wres' = [wres EXCEPT ![w] = read_error_result(m)]
             /\ wpc' = [wpc EXCEPT ![w] = "reply"]
             /\ UNCHANGED worig
  /\ UNCHANGED <<mpc, wsvars, taskvars, poolvars, handlevars, wproc,
                 wrestorefail, wrun, outbox, timedout, loadvars, report, safevars>>

\* execute_mutation step 2, __apply_mutation; on Err the handler returns the
\* FILE_ERROR result at once
ApplyMutation(w) ==
  /\ wproc[w] = "running"
  /\ wpc[w] = "read"
  /\ LET m == wreq[w] IN
       \/ /\ fs' = [fs EXCEPT ![Target(m)] = MutContent(m)]
          /\ wpc' = [wpc EXCEPT ![w] = "mutated"]
          /\ UNCHANGED <<wres, faults>>
       \/ /\ faults < MaxFaults
          /\ faults' = faults + 1
          /\ \E c \in AfterFailedWrite(fs[Target(m)]) :
               fs' = [fs EXCEPT ![Target(m)] = c]
          /\ wres' = [wres EXCEPT ![w] = write_error_result(m)]
          /\ wpc' = [wpc EXCEPT ![w] = "reply"]
  /\ UNCHANGED <<mpc, top, taskvars, poolvars, handlevars, wproc, wreq, worig,
                 wrestorefail, wrun, inbox, outbox, timedout, loadvars, report, safevars>>

\* execute_mutation steps 3 to 5: run_targeted_tests ends (the runner
\* exits, or cannot be spawned or waited for), __restore_original_file
\* writes the original back (a failed restore is only logged), and
\* __create_test_result builds the reply.  A runner that never ends is the
\* case where this step is never taken.
\* runs is what the runner can print and exit with.
RunTestsAndRestoreOn(w, runs) ==
  /\ wproc[w] = "running"
  /\ wpc[w] = "mutated"
  /\ LET m == wreq[w] IN
     \E how \in {"exit", "spawn_error", "wait_error"}, run \in runs,
        restoreOk \in BOOLEAN :
       /\ how # "exit" => get_target_test_file(FileOf(m))
       /\ wrun' = [wrun EXCEPT ![w] =
                     IF ~get_target_test_file(FileOf(m)) THEN NoRun
                     ELSE IF how = "exit"
                          THEN [how |-> how, code |-> run.code, out |-> run.out]
                          ELSE [how |-> how, code |-> 0, out |-> <<>>]]
       /\ LET n == (IF how = "exit" THEN 0 ELSE 1) + (IF restoreOk THEN 0 ELSE 1)
          IN /\ faults + n <= MaxFaults
             /\ faults' = faults + n
       /\ IF restoreOk
          THEN /\ fs' = [fs EXCEPT ![Target(m)] = worig[w]]
               /\ UNCHANGED wrestorefail
          ELSE /\ \E c \in AfterFailedWrite(fs[Target(m)]) :
                    fs' = [fs EXCEPT ![Target(m)] = c]
               /\ wrestorefail' = [wrestorefail EXCEPT ![w] = TRUE]
       /\ wres' = [wres EXCEPT ![w] =
                     create_test_result(run_targeted_tests(FileOf(m), how, run), m)]
  /\ wpc' = [wpc EXCEPT ![w] = "reply"]
  /\ UNCHANGED <<mpc, top, taskvars, poolvars, handlevars, wproc, wreq, worig,
                 inbox, outbox, timedout, loadvars, report, safevars>>

RunTestsAndRestore(w) == RunTestsAndRestoreOn(w, RunnerRuns)

\* main: send_response(WorkerResponse::TestResult(result))
EmitResult(w) ==
  /\ wproc[w] = "running"
  /\ wpc[w] = "reply"
  /\ outbox' = [outbox EXCEPT ![w] = Append(@, Response("TestResult", wres[w]))]
  /\ wpc' = [wpc EXCEPT ![w] = "idle"]
  /\ wreq' = [wreq EXCEPT ![w] = 0]
  /\ worig' = [worig EXCEPT ![w] = NoContent]
  /\ wres' = [wres EXCEPT ![w] = NoResult]
  /\ wrestorefail' = [wrestorefail EXCEPT ![w] = FALSE]
  /\ wrun' = [wrun EXCEPT ![w] = NoRun]
  /\ UNCHANGED <<mpc, wsvars, faults, taskvars, poolvars, handlevars, wproc, inbox,
                 timedout, loadvars, report, safevars>>

\* ------------------------------------------------------------ specification
\* main up to the start of run_mutations
StartupNext ==
  \/ SymlinkProjectFiles
  \/ SetupSourceDirectory
  \/ LoadSkip
  \/ LoadPush
  \/ LoadFails
  \/ LoadReturns
  \/ WorkspaceBuildFails
  \/ PoolNew
  \/ PoolNewFails

\* run_mutations, the shutdown of the pool and the report, with the worker
\* processes and their environment
RunNext ==
  \/ \E t \in Mutations : Acquire(t)
  \/ \E t \in Mutations : GetWorkerPop(t)
  \/ \E t \in Mutations : GetWorkerShutdownDone(t)
  \/ \E t \in Mutations : SpawnStart(t)
  \/ \E t \in Mutations : SpawnDone(t)
  \/ \E t \in Mutations : SpawnFails(t)
  \/ \E t \in Mutations : ReceiveResponse(t)
  \/ \E t \in Mutations : WorkerDied(t)
  \/ \E t \in Mutations : WorkerTimeout(t)
  \/ \E t \in Mutations : ReturnWorker(t)
  \/ \E t \in Mutations : ReturnShutdownDone(t)
  \/ Collect
  \/ PoolShutdown
  \/ PoolShutdownDone
  \/ GenerateReport
  \/ \E w \in Workers : Age(w)
  \/ \E w \in Workers : Crash(w)
  \/ \E w \in Workers : WorkerReady(w)
  \/ \E w \in Workers : ReadShutdown(w)
  \/ \E w \in Workers : ReadOriginal(w)
  \/ \E w \in Workers : ApplyMutation(w)
  \/ \E w \in Workers : RunTestsAndRestore(w)
  \/ \E w \in Workers : EmitResult(w)

Next == StartupNext \/ RunNext

Spec == Init /\ [][Next]_vars

\* The pool in the middle of a long run: the workspace is built, the
\* mutations before those of Mutations are done, and the workers of the pool
\* sit in the deque after having served served[w] requests each.
MidRunInit(served) ==
  LET st == setup_source_directory_for_mutation(
              symlink_project_files(
                [top |-> [t \in Tops |-> "absent"],
                 fs  |-> [l \in Locs |-> IF l[1] = "dev" THEN ORIG ELSE ABSENT]],
                TRUE))
  IN
  /\ mpc = "run"
  /\ top = st.top
  /\ fs = st.fs
  /\ faults = 0
  /\ tpc = [m \in Mutations |-> "start"]
  /\ tworker = [m \in Mutations |-> 0]
  /\ tresult = [m \in Mutations |-> NoReturn]
  /\ tfinal = [m \in Mutations |-> NoFinal]
  /\ permits = pool_size
  /\ lock = 0
  /\ available = [i \in 1..pool_size |-> i]
  /\ hstate = [w \in Workers |-> IF w <= pool_size THEN "deque" ELSE "none"]
  /\ wproc = [w \in Workers |-> IF w <= pool_size THEN "running" ELSE "unspawned"]
  /\ wpc = [w \in Workers |-> IF w <= pool_size THEN "idle" ELSE "none"]
  /\ wreq = [w \in Workers |-> 0]
  /\ worig = [w \in Workers |-> NoContent]
  /\ wres = [w \in Workers |-> NoResult]
  /\ wrestorefail = [w \in Workers |-> FALSE]
  /\ wrun = [w \in Workers |-> NoRun]
  /\ inbox = [w \in Workers |-> <<>>]
  /\ outbox = [w \in Workers |-> <<>>]
  /\ executions = served
  /\ aged = [w \in Workers |-> FALSE]
  /\ timedout = {}
  /\ catalog = RunCatalog
  /\ next_entry = Len(RunCatalog) + 1
  /\ mutations = [m \in Mutations |->
                    [id |-> m, file |-> FileOf(m), line |-> 2,
                     original |-> "y", mutated |-> ChangedText]]
  /\ mutation_id_counter = NumMutations + 1
  /\ report = NoReport
  /\ SafeIdle

\* The loader on the catalogs of at most MaxCatalog files, in a workspace
\* that has been built.
LoadInit ==
  /\ \E symlinkOk \in BOOLEAN :
       LET st == setup_source_directory_for_mutation(
                   symlink_project_files(
                     [top |-> [t \in Tops |-> "absent"],
                      fs  |-> [l \in Locs |-> IF l[1] = "dev" THEN ORIG ELSE ABSENT]],
                     symlinkOk))
       IN top = st.top /\ fs = st.fs
  /\ mpc = "generate_mutations"
  /\ faults = 0
  /\ tpc = [m \in Mutations |-> "start"]
  /\ tworker = [m \in Mutations |-> 0]
  /\ tresult = [m \in Mutations |-> NoReturn]
  /\ tfinal = [m \in Mutations |-> NoFinal]
  /\ permits = 0
  /\ lock = 0
  /\ available = <<>>
  /\ hstate = [w \in Workers |-> "none"]
  /\ wproc = [w \in Workers |-> "unspawned"]
  /\ wpc = [w \in Workers |-> "none"]
  /\ wreq = [w \in Workers |-> 0]
  /\ worig = [w \in Workers |-> NoContent]
  /\ wres = [w \in Workers |-> NoResult]
  /\ wrestorefail = [w \in Workers |-> FALSE]
  /\ wrun = [w \in Workers |-> NoRun]
  /\ inbox = [w \in Workers |-> <<>>]
  /\ outbox = [w \in Workers |-> <<>>]
  /\ executions = [w \in Workers |-> 0]
  /\ aged = [w \in Workers |-> FALSE]
  /\ timedout = {}
  /\ catalog \in Catalogs
  /\ next_entry = 1
  /\ mutations = <<>>
  /\ mutation_id_counter = 1
  /\ report = NoReport
  /\ SafeIdle

LoadNext == LoadSkip \/ LoadPush \/ LoadFails \/ LoadReturns

LoadSpec == LoadInit /\ [][LoadNext]_vars

\* generate_report on the result lists of at most NumMutations results:
\* every kill type, with and without the output of a run that found no test
\* file.
KillTypes == {"Survived", "BehavioralKill", "CompileError"}
ResultLists ==
  [Mutations ->
     {NoFinal} \cup
     {[kind |-> "ok", kill_type |-> k, killed |-> k # "Survived",
       test_output |-> o, id |-> 0] : k \in KillTypes, o \in {<<"1 fail">>}}
     \cup {[kind |-> "ok", kill_type |-> "Survived", killed |-> FALSE,
             test_output |-> <<"NO_TESTS:", "had no matches">>, id |-> 0]}]

ReportInit ==
  /\ LET st == setup_source_directory_for_mutation(
                 symlink_project_files(
                   [top |-> [t \in Tops |-> "absent"],
                    fs  |-> [l \in Locs |-> IF l[1] = "dev" THEN ORIG ELSE ABSENT]],
                   TRUE))
     IN top = st.top /\ fs = st.fs
  /\ mpc = "done"
  /\ faults = 0
  /\ tpc = [m \in Mutations |-> "done"]
  /\ tworker = [m \in Mutations |-> 0]
  /\ tresult = [m \in Mutations |-> NoReturn]
  /\ \E results \in ResultLists :
       tfinal = [m \in Mutations |->
                  IF results[m].kind = "ok" THEN [results[m] EXCEPT !.id = m]
                  ELSE results[m]]
  /\ permits = pool_size
  /\ lock = 0
  /\ available = <<>>
  /\ hstate = [w \in Workers |-> IF w <= pool_size THEN "shutdown" ELSE "none"]
  /\ wproc = [w \in Workers |-> IF w <= pool_size THEN "exited" ELSE "unspawned"]
  /\ wpc = [w \in Workers |-> "none"]
  /\ wreq = [w \in Workers |-> 0]
  /\ worig = [w \in Workers |-> NoContent]
  /\ wres = [w \in Workers |-> NoResult]
  /\ wrestorefail = [w \in Workers |-> FALSE]
  /\ wrun = [w \in Workers |-> NoRun]
  /\ inbox = [w \in Workers |-> <<>>]
  /\ outbox = [w \in Workers |-> <<>>]
  /\ executions = [w \in Workers |-> 0]
  /\ aged = [w \in Workers |-> FALSE]
  /\ timedout = {}
  /\ catalog = RunCatalog
  /\ next_entry = Len(RunCatalog) + 1
  /\ mutations = <<>>
  /\ mutation_id_counter = NumMutations + 1
  /\ report = NoReport
  /\ SafeIdle

ReportSpec == ReportInit /\ [][GenerateReport]_vars

\* The workers have served MaxExecutions - 1, MaxExecutions - 2, ... requests.
LongRunInit ==
  MidRunInit([w \in Workers |-> IF w <= pool_size THEN MaxExecutions - w ELSE 0])

\* Runs from the start of the program and runs that go on from the middle
\* of a long run.
LongRunSpec == (Init \/ LongRunInit) /\ [][Next]_vars

\* The last NumMutations mutations of a run in which every worker of the
\* pool has served MaxExecutions - 1 requests so far.
RecycleInit ==
  MidRunInit([w \in Workers |-> IF w <= pool_size THEN MaxExecutions - 1 ELSE 0])

RecycleSpec == RecycleInit /\ [][RunNext]_vars

\* What a test runner can print and exit with: texts of at most MaxOutput
\* pieces, among them the words the worker looks for in an error.
RunnerTokens ==
  {"1 fail", "0 fail", "timed out", "Failed to spawn", "had no matches"}
RunnerOutputs ==
  {[code |-> c, out |-> o] :
     c \in {0, 1}, o \in UNION {[1..n -> RunnerTokens] : n \in 0..MaxOutput}}

\* A worker of the pool has written the mutant of a request and is about
\* to run the tests.
RunnerInit ==
  \E m \in Mutations, v \in 1..pool_size :
    LET st == setup_source_directory_for_mutation(
                symlink_project_files(
                  [top |-> [t \in Tops |-> "absent"],
                   fs  |-> [l \in Locs |-> IF l[1] = "dev" THEN ORIG ELSE ABSENT]],
                  TRUE))
    IN
    /\ mpc = "run"
    /\ top = st.top
    /\ fs = [st.fs EXCEPT ![Resolve(st.top, FileOf(m))] = MutContent(m)]
    /\ faults = 0
    /\ tpc = [t \in Mutations |-> IF t = m THEN "wait" ELSE "start"]
    /\ tworker = [t \in Mutations |-> IF t = m THEN v ELSE 0]
    /\ tresult = [t \in Mutations |-> NoReturn]
    /\ tfinal = [t \in Mutations |-> NoFinal]
    /\ permits = pool_size - 1
    /\ lock = 0
    /\ available = SelectSeq([i \in 1..pool_size |-> i], LAMBDA i : i # v)
    /\ hstate = [w \in Workers |->
                   IF w = v THEN "held" ELSE IF w <= pool_size THEN "deque" ELSE "none"]
    /\ wproc = [w \in Workers |-> IF w <= pool_size THEN "running" ELSE "unspawned"]
    /\ wpc = [w \in Workers |->
                IF w = v THEN "mutated" ELSE IF w <= pool_size THEN "idle" ELSE "none"]
    /\ wreq = [w \in Workers |-> IF w = v THEN m ELSE 0]
    /\ worig = [w \in Workers |-> IF w = v THEN ORIG ELSE NoContent]
    /\ wres = [w \in Workers |-> NoResult]
    /\ wrestorefail = [w \in Workers |-> FALSE]
    /\ wrun = [w \in Workers |-> NoRun]
    /\ inbox = [w \in Workers |-> <<>>]
    /\ outbox = [w \in Workers |-> <<>>]
    /\ executions = [w \in Workers |-> 0]
    /\ aged = [w \in Workers |-> FALSE]
    /\ timedout = {}
    /\ catalog = RunCatalog
    /\ next_entry = Len(RunCatalog) + 1
    /\ mutations = <<>>
    /\ mutation_id_counter = NumMutations + 1
    /\ report = NoReport
    /\ SafeIdle

RunnerNext ==
  \/ \E w \in Workers : RunTestsAndRestoreOn(w, RunnerOutputs)
  \/ \E w \in Workers : EmitResult(w)

RunnerSpec == RunnerInit /\ [][RunnerNext]_vars

\* ------------------------------------------ klep-mutation-v2: the runner
parallel_count == 2

pathogenvars == <<mpc, wsvars, faults, taskvars, poolvars, handlevars, procvars,
                  timedout, loadvars, report>>

\* MutationRunner::apply_mutation_to_content on the text of the temp copy:
\* Err for a span outside the text, a panic for a slice that is not on a
\* character boundary, else the spliced text
apply_mutation_to_content(content, mu) ==
  IF mu.span_start > Len(content) \/ mu.span_end > Len(content)
       \/ mu.span_start > mu.span_end
  THEN [kind |-> "Err", content |-> NoContent]
  ELSE IF ~mu.on_boundary THEN [kind |-> "panic", content |-> NoContent]
  ELSE [kind |-> "Ok", content |-> splice(content, mu)]

\* MutationCache::get_content_hash: the hash kept for the file if it is less
\* than 60 s old, else the hash of the content, which is then kept
get_content_hash(cache, file, content) ==
  IF cache[file] # NoHashEntry /\ cache[file].fresh
  THEN [hash |-> cache[file].hash, cache |-> cache]
  ELSE [hash |-> from_content(content),
        cache |-> [cache EXCEPT ![file] = [hash |-> from_content(content), fresh |-> TRUE]]]

\* MutationCache::get_mutation_result: the entry, unless it is stale
get_mutation_result(cache, content_hash) ==
  IF cache[content_hash] # NoCached /\ ~cache[content_hash].stale
  THEN cache[content_hash] ELSE NoCached

\* A token that keeps what the file holds when the mutation is applied.
apply_mutation_temporarily_rereading(fl, originals, file, mutated_content) ==
  [files |-> [fl EXCEPT ![file] = mutated_content],
   token |-> [file |-> file, original_content |-> fl[file]]]

\* SafeFileManager::apply_mutation_temporarily: the mutant is written over
\* the file; the token carries the backup made at prepare time
apply_mutation_temporarily(fl, originals, file, mutated_content) ==
  [files |-> [fl EXCEPT ![file] = mutated_content],
   token |-> [file |-> file, original_content |-> originals[file]]]

\* RestorationToken::drop
drop_token(fl, token) ==
  IF token = NoToken THEN fl ELSE [fl EXCEPT ![token.file] = token.original_content]

\* SafeFileManager::restore_file: the write, then the token is dropped
restore_file(fl, token) ==
  drop_token([fl EXCEPT ![token.file] = token.original_content], token)

\* SafeFileManager::emergency_restore_all
emergency_restore_all(fl, originals) ==
  [f \in DOMAIN fl |-> IF originals[f] # NoContent THEN originals[f] ELSE fl[f]]

RECURSIVE drop_tokens(_, _)
drop_tokens(fl, held) ==
  IF held = {} THEN fl
  ELSE LET k == CHOOSE k \in held : TRUE
       IN drop_tokens(drop_token(fl, k), held \ {k})

\* MutationRunner::is_compile_error
is_compile_error(error_output) ==
  \E phrase \in {"error ts", "syntaxerror", "unexpected token",
                  "unexpected end of input", "cannot resolve", "module not found",
                  "cannot find module", "type error", "property does not exist",
                  "cannot be used as an index type", "failed to resolve",
                  "parse error", "compilation failed", "build failed"} :
     contains(error_output, phrase)

\* MutationRunner::classify_test_result
classify_test_result(test_result) ==
  IF test_result.ok
  THEN [killed |-> FALSE, kill_type |-> "Survived", test_output |-> test_result.out]
  ELSE IF is_compile_error(test_result.out)
       THEN [killed |-> TRUE, kill_type |-> "CompileError", test_output |-> test_result.out]
       ELSE [killed |-> TRUE, kill_type |-> "BehavioralKill",
             test_output |-> test_result.out]

\* run_test_with_timeout: what `klep test` can come back with
SafeTestRuns ==
  { [ok |-> TRUE, out |-> <<"pass">>],
    [ok |-> FALSE, out |-> <<"1 fail">>],
    [ok |-> FALSE, out |-> <<"error ts">>] }

FilesToPrepare == {safe_mutations[m].file : m \in Mutations}

\* run_mutations_safely is called with a catalog; the files hold their
\* sources.
SafeInit ==
  /\ mpc = "symlink_project_files"
  /\ top = [t \in Tops |-> "absent"]
  /\ fs = [l \in Locs |-> IF l[1] = "dev" THEN ORIG ELSE ABSENT]
  /\ faults = 0
  /\ tpc = [m \in Mutations |-> "start"]
  /\ tworker = [m \in Mutations |-> 0]
  /\ tresult = [m \in Mutations |-> NoReturn]
  /\ tfinal = [m \in Mutations |-> NoFinal]
  /\ permits = 0
  /\ lock = 0
  /\ available = <<>>
  /\ hstate = [w \in Workers |-> "none"]
  /\ wproc = [w \in Workers |-> "unspawned"]
  /\ wpc = [w \in Workers |-> "none"]
  /\ wreq = [w \in Workers |-> 0]
  /\ worig = [w \in Workers |-> NoContent]
  /\ wres = [w \in Workers |-> NoResult]
  /\ wrestorefail = [w \in Workers |-> FALSE]
  /\ wrun = [w \in Workers |-> NoRun]
  /\ inbox = [w \in Workers |-> <<>>]
  /\ outbox = [w \in Workers |-> <<>>]
  /\ executions = [w \in Workers |-> 0]
  /\ aged = [w \in Workers |-> FALSE]
  /\ timedout = {}
  /\ catalog = RunCatalog
  /\ next_entry = 1
  /\ mutations = <<>>
  /\ mutation_id_counter = 1
  /\ report = NoReport
  /\ safe_pc = "prepare"
  /\ safe_mutations \in [Mutations -> SafeMutationPool]
  /\ source_files \in [Range(SafeFiles) -> SourceTexts]
  /\ at_prepare = [f \in Range(SafeFiles) |-> NoContent]
  /\ original_contents = [f \in Range(SafeFiles) |-> NoContent]
  /\ temp_copies = [f \in Range(SafeFiles) |-> NoContent]
  /\ task_pc = [m \in Mutations |-> "queued"]
  /\ task_hash = [m \in Mutations |-> NoHash]
  /\ tokens = [m \in Mutations |-> NoToken]
  /\ task_result = [m \in Mutations |-> NoTaskResult]
  /\ semaphore = parallel_count
  /\ content_hash_cache = [f \in Range(SafeFiles) |-> NoHashEntry]
  /\ mutation_cache = [h \in SafeHashes |-> NoCached]

\* run_mutations_safely: one turn of the loop over files_to_prepare (sorted,
\* without duplicates), SafeFileManager::prepare_file_for_mutation
PrepareFile ==
  /\ safe_pc = "prepare"
  /\ \E i \in 1..Len(SafeFiles) :
       LET f == SafeFiles[i] IN
       /\ f \in FilesToPrepare
       /\ original_contents[f] = NoContent
       /\ \A j \in 1..(i - 1) :
            SafeFiles[j] \in FilesToPrepare => original_contents[SafeFiles[j]] # NoContent
       /\ original_contents' = [original_contents EXCEPT ![f] = source_files[f]]
       /\ temp_copies' = [temp_copies EXCEPT ![f] = source_files[f]]
       /\ at_prepare' = [at_prepare EXCEPT ![f] = source_files[f]]
  /\ UNCHANGED <<pathogenvars, safe_pc, safe_mutations, source_files, task_pc, task_hash,
                 tokens, task_result, semaphore, content_hash_cache, mutation_cache>>

\* run_mutations_safely: every file is prepared, run_mutations_parallel
\* starts
RunMutationsParallel ==
  /\ safe_pc = "prepare"
  /\ \A f \in FilesToPrepare : original_contents[f] # NoContent
  /\ safe_pc' = "run"
  /\ UNCHANGED <<pathogenvars, safe_mutations, source_files, at_prepare,
                 original_contents, temp_copies, task_pc, task_hash, tokens,
                 task_result, semaphore, content_hash_cache, mutation_cache>>

\* run_single_mutation_safely up to its await: the permit, the mutated
\* content, its hash, the cache lookup and, on a miss, the mutant written
\* over the file.  A panic unwinds run_mutations_safely: the tokens of the
\* futures are dropped, then the SafetyGuard restores every file.
StartMutation(t) ==
  /\ safe_pc = "run"
  /\ task_pc[t] = "queued"
  /\ semaphore > 0
  /\ LET mu == safe_mutations[t]
         applied == apply_mutation_to_content(temp_copies[mu.file], mu)
         hashed == get_content_hash(content_hash_cache, mu.file, applied.content)
         cached == get_mutation_result(mutation_cache, hashed.hash)
         mutated == apply_mutation_temporarily(source_files, original_contents,
                                               mu.file, applied.content)
     IN
     \/ /\ applied.kind = "panic"
        /\ safe_pc' = "panicked"
        /\ source_files' =
             emergency_restore_all(
               drop_tokens(source_files, {tokens[m] : m \in Mutations}),
               original_contents)
        /\ tokens' = [m \in Mutations |-> NoToken]
        /\ UNCHANGED <<task_pc, task_hash, task_result, semaphore,
                       content_hash_cache, mutation_cache>>
     \/ /\ applied.kind = "Err"
        /\ task_pc' = [task_pc EXCEPT ![t] = "done"]
        /\ task_result' = [task_result EXCEPT ![t] =
                             [NoTaskResult EXCEPT !.kind = "Err"]]
        /\ UNCHANGED <<safe_pc, source_files, task_hash, tokens, semaphore,
                       content_hash_cache, mutation_cache>>
     \/ /\ applied.kind = "Ok"
        /\ content_hash_cache' = hashed.cache
        /\ IF cached # NoCached
           THEN /\ task_pc' = [task_pc EXCEPT ![t] = "done"]
                /\ task_result' = [task_result EXCEPT ![t] =
                     [kind |-> "Ok", killed |-> ~cached.success,
                      kill_type |-> IF cached.success THEN "Survived"
                                    ELSE "BehavioralKill",
                      test_output |-> cached.output, from_cache |-> TRUE,
                      tested |-> cached.tested]]
                /\ UNCHANGED <<source_files, task_hash, tokens, semaphore>>
           ELSE /\ task_pc' = [task_pc EXCEPT ![t] = "testing"]
                /\ task_hash' = [task_hash EXCEPT ![t] = hashed.hash]
                /\ source_files' = mutated.files
                /\ tokens' = [tokens EXCEPT ![t] = mutated.token]
                /\ semaphore' = semaphore - 1
                /\ UNCHANGED task_result
        /\ UNCHANGED <<safe_pc, mutation_cache>>
  /\ UNCHANGED <<pathogenvars, safe_mutations, at_prepare, original_contents,
                 temp_copies>>

\* run_single_mutation_safely after its await: the test run has ended, the
\* file is restored with the token, the result is classified and cached,
\* and the permit is dropped.  tested records the content that was applied.
FinishMutation(t) ==
  /\ safe_pc = "run"
  /\ task_pc[t] = "testing"
  /\ \E run \in SafeTestRuns :
       LET c == classify_test_result(run)
           mu == safe_mutations[t]
           content == apply_mutation_to_content(temp_copies[mu.file], mu).content
       IN /\ task_result' = [task_result EXCEPT ![t] =
                               [kind |-> "Ok", killed |-> c.killed,
                                kill_type |-> c.kill_type,
                                test_output |-> c.test_output,
                                from_cache |-> FALSE, tested |-> content]]
          /\ mutation_cache' = [mutation_cache EXCEPT ![task_hash[t]] =
                                  [success |-> ~c.killed, output |-> c.test_output,
                                   stale |-> FALSE, tested |-> content]]
  /\ source_files' = restore_file(source_files, tokens[t])
  /\ tokens' = [tokens EXCEPT ![t] = NoToken]
  /\ task_pc' = [task_pc EXCEPT ![t] = "done"]
  /\ semaphore' = semaphore + 1
  /\ UNCHANGED <<pathogenvars, safe_pc, safe_mutations, at_prepare, original_contents,
                 temp_copies, task_hash, content_hash_cache>>

\* 60 s pass since the hash of a file was kept
HashAges(f) ==
  /\ safe_pc = "run"
  /\ content_hash_cache[f] # NoHashEntry
  /\ content_hash_cache[f].fresh
  /\ content_hash_cache' = [content_hash_cache EXCEPT ![f].fresh = FALSE]
  /\ UNCHANGED <<pathogenvars, safe_pc, safe_mutations, source_files, at_prepare,
                 original_contents, temp_copies, task_pc, task_hash, tokens,
                 task_result, semaphore, mutation_cache>>

\* An hour passes since a result was cached
CacheAges(h) ==
  /\ safe_pc = "run"
  /\ mutation_cache[h] # NoCached
  /\ ~mutation_cache[h].stale
  /\ mutation_cache' = [mutation_cache EXCEPT ![h].stale = TRUE]
  /\ UNCHANGED <<pathogenvars, safe_pc, safe_mutations, source_files, at_prepare,
                 original_contents, temp_copies, task_pc, task_hash, tokens,
                 task_result, semaphore, content_hash_cache>>

\* run_mutations_parallel: every future has completed; Ok with the results
\* or the first Err
SafeCollect ==
  /\ safe_pc = "run"
  /\ \A t \in Mutations : task_pc[t] = "done"
  /\ safe_pc' = IF \A t \in Mutations : task_result[t].kind = "Ok"
                THEN "returned" ELSE "failed"
  /\ UNCHANGED <<pathogenvars, safe_mutations, source_files, at_prepare,
                 original_contents, temp_copies, task_pc, task_hash, tokens,
                 task_result, semaphore, content_hash_cache, mutation_cache>>

SafeNext ==
  \/ PrepareFile
  \/ RunMutationsParallel
  \/ \E t \in Mutations : StartMutation(t)
  \/ \E t \in Mutations : FinishMutation(t)
  \/ \E f \in Range(SafeFiles) : HashAges(f)
  \/ \E h \in SafeHashes : CacheAges(h)
  \/ SafeCollect

SafeSpec == SafeInit /\ [][SafeNext]_vars

\* The steps of the parent program: the tokio runtime runs every task that
\* is ready, and timers fire.
ParentStep ==
  \/ SymlinkProjectFiles
  \/ SetupSourceDirectory
  \/ LoadSkip
  \/ LoadPush
  \/ LoadFails
  \/ LoadReturns
  \/ PoolNew
  \/ \E t \in Mutations : Acquire(t)
  \/ \E t \in Mutations : GetWorkerPop(t)
  \/ \E t \in Mutations : GetWorkerShutdownDone(t)
  \/ \E t \in Mutations : SpawnStart(t)
  \/ \E t \in Mutations : SpawnDone(t)
  \/ \E t \in Mutations : SpawnFails(t)
  \/ \E t \in Mutations : ReceiveResponse(t)
  \/ \E t \in Mutations : WorkerDied(t)
  \/ \E t \in Mutations : HungTimeout(t)
  \/ \E t \in Mutations : ReturnWorker(t)
  \/ \E t \in Mutations : ReturnShutdownDone(t)
  \/ Collect
  \/ PoolShutdown
  \/ PoolShutdownDone
  \/ GenerateReport

LiveNext == Next \/ \E t \in Mutations : HungTimeout(t)

\* The steps of a worker process that end on their own: reading a line,
\* file reads and writes, writing a line.
WorkerStep ==
  \/ \E w \in Workers : WorkerReady(w)
  \/ \E w \in Workers : ReadShutdown(w)
  \/ \E w \in Workers : ReadOriginal(w)
  \/ \E w \in Workers : ApplyMutation(w)
  \/ \E w \in Workers : EmitResult(w)

\* Fairness: the parent's ready tasks and timers run, and a worker process
\* is scheduled.  Nothing is assumed about run_targeted_tests: the test
\* runner, and with it the worker, may hang forever.
LiveSpec ==
  /\ Init
  /\ [][LiveNext]_vars
  /\ WF_vars(ParentStep)
  /\ WF_vars(WorkerStep)

\* ------------------------------------------------------------------ claims
RunPhases == {"run", "shutdown", "shutdown_grace", "done", "reported", "failed"}
InFlight(t) == tpc[t] = "wait"
PermitHolders ==
  {t \in Mutations : tpc[t] \in {"get_worker", "pop", "pop_shutdown", "spawning",
                                  "wait", "return", "return_shutdown"}}
Held == {w \in Workers : hstate[w] = "held"}
InFlightSpawns == {t \in Mutations : tpc[t] = "spawning"}

\* C1: restoration law.  Whenever a worker emits the TestResult of a request
\* whose initial read succeeded and whose restore write did not fail, the
\* target file holds exactly the content read in step 1 (on every exit path,
\* the failed mutant write included).
C1_RestorationLaw ==
  [][\A w \in Workers :
       (wpc[w] = "reply" /\ wpc'[w] = "idle" /\ worig[w] # NoContent /\ ~wrestorefail[w])
         => fs[Target(wreq[w])] = worig[w]]_vars

\* C2: workspace isolation.  Every file of the developer's tree keeps its
\* content in every state of every run, and every file a worker is about to
\* write or has written for a request is a regular-file copy inside W.
C2_WorkspaceIsolation ==
  /\ \A f \in FileNames : fs[<<"dev", f>>] = ORIG
  /\ \A w \in Workers : wreq[w] # 0 =>
        (Target(wreq[w])[1] = "W" /\ top[TopOf(FileOf(wreq[w]))] = "copy")

\* C2 witness: a worker was force-killed between its mutant write and the
\* restore, the run is over and the mutant is still in the scratch copy.
C2_Witness ==
  /\ mpc = "done"
  /\ timedout # {}
  /\ \E m \in Mutations : fs[<<"W", FileOf(m)>>] = MutContent(m)

\* C3: no mutation outlives a request/response turn.  In a run without any
\* kill or I/O fault, whenever no request for file f is in flight, f in the
\* scratch workspace holds the content it had before the run.
C3_NoMutationOutlivesTurn ==
  \A f \in SourceFiles :
    (/\ mpc \in RunPhases
     /\ faults = 0
     /\ \A t \in Mutations : FileOf(t) = f => ~InFlight(t))
    => fs[<<"W", f>>] = ORIG

\* C4: requests for the same file never overlap: no two requests with the
\* same target file are in flight at once.
C4_SameFileNeverOverlaps ==
  \A t1, t2 \in Mutations :
    (t1 # t2 /\ FileOf(t1) = FileOf(t2)) => ~(InFlight(t1) /\ InFlight(t2))

\* C5: the semaphore caps concurrency: the tasks holding a permit, and the
\* workers handling a request, never number more than pool_size.
C5_SemaphoreCap ==
  /\ Cardinality(PermitHolders) <= pool_size
  /\ Cardinality({w \in Workers : wproc[w] = "running" /\ MidRequest(w)}) <= pool_size
  /\ mpc = "run" => permits + Cardinality(PermitHolders) = pool_size

\* C5 witness: every permit is taken and a further mutation waits for one.
C5_Witness ==
  /\ Cardinality(PermitHolders) = pool_size
  /\ permits = 0
  /\ \E t \in Mutations : tpc[t] = "start"

\* C6: pool size invariant: available handles plus checked-out handles are
\* at most pool_size plus the worker spawns in flight.
C6_PoolSize ==
  Len(available) + Cardinality(Held) <= pool_size + Cardinality(InFlightSpawns)

\* C6 witness: after a recycling a replacement worker is checked out and the
\* pool is full again.
C6_Witness ==
  /\ \E w \in Workers : w > pool_size /\ hstate[w] = "held"
  /\ Len(available) + Cardinality(Held) = pool_size

\* C7: no worker handle is leaked: a checked-out handle belongs to a task
\* that is still inside execute_mutation, and while tasks run every handle
\* that left a task was pushed back or shut down.
C7_NoLeak ==
  /\ \A w \in Held : \E t \in Mutations : tworker[t] = w /\ tpc[t] \in {"wait", "return"}
  /\ \A w \in Workers : hstate[w] = "shutting" =>
       \/ mpc = "shutdown_grace"
       \/ \E t \in Mutations :
            tworker[t] = w /\ tpc[t] \in {"pop_shutdown", "return_shutdown"}
  /\ mpc = "run" => \A w \in Workers : hstate[w] # "dropped"
  /\ \A t \in Mutations : tpc[t] = "done" => tworker[t] = 0

\* C7 witness: a request failed with "Worker process died" and its handle
\* was shut down.
C7_Witness ==
  \E t \in Mutations :
    /\ tpc[t] = "done"
    /\ tfinal[t].kind = "err"
    /\ tfinal[t].test_output = <<"Worker process died">>
    /\ \E w \in Workers : hstate[w] = "shutdown"

\* C8: parent timeout result: the result the pool returns for a request
\* that hit the 10 s ceiling is Ok, has success = false, the request's
\* mutation_id, and an output that begins with TIMEOUT:.
C8_ParentTimeoutResult ==
  \A t \in Mutations :
    (tpc[t] = "return" /\ tworker[t] \in timedout) =>
      /\ tresult[t].kind = "ok"
      /\ ~tresult[t].result.success
      /\ tresult[t].result.mutation_id = t
      /\ starts_with(tresult[t].result.output, "TIMEOUT:")

\* C9: a worker whose request hit the parent's timeout is never pushed back
\* onto the deque and never gets another request.
C9_TimedOutWorkerNotReused ==
  \A w \in timedout :
    /\ w \notin Range(available)
    /\ hstate[w] \in {"held", "shutting", "shutdown"}
    /\ hstate[w] = "held" => \E t \in Mutations : tworker[t] = w /\ tpc[t] = "return"
    /\ inbox[w] = <<>>

\* C9 witness: after a timeout the next acquire got a replacement worker.
C9_Witness ==
  /\ \E w \in timedout : hstate[w] = "shutdown"
  /\ \E t \in Mutations : tpc[t] = "wait" /\ tworker[t] > pool_size

\* The outputs of the requests that end in a system error, as the code
\* builds them.
SystemErrorOutputs(m) ==
  { read_error_result(m).output,
    write_error_result(m).output,
    create_test_result(run_targeted_tests("a", "spawn_error", [code |-> 0, out |-> <<>>]), m).output,
    create_test_result(execute_test_with_timeout("elapsed", [code |-> 0, out |-> <<>>]), m).output,
    handle_worker_timeout(m).output }

\* C10: every request that ends in a system error is classified
\* CompileError.
C10_SystemErrorsAreCompileErrors ==
  \A t \in Mutations :
    (tfinal[t].kind = "ok" /\ tfinal[t].test_output \in SystemErrorOutputs(t))
      => tfinal[t].kill_type = "CompileError"

\* C11: the dispatcher's classifier equals the reference classifier: the
\* kill type the dispatcher gives to every TestResult it gets back is
\* Survived if success; otherwise CompileError if the output begins with a
\* system tag or contains a compile pattern (the TypeScript patterns
\* included); otherwise BehavioralKill.
C11_ClassifierEqualsReference ==
  [][LET reference(r) ==
        IF r.success THEN "Survived"
        ELSE IF \/ starts_with(r.output, "TIMEOUT:")
                \/ starts_with(r.output, "FILE_ERROR:")
                \/ starts_with(r.output, "EXECUTION_ERROR:")
                \/ \E p \in {"compilation", "syntax", "SyntaxError", "TypeError",
                              "ReferenceError", "error TS", "cannot resolve",
                              "cannot find module", "property does not exist"} :
                      contains(r.output, p)
             THEN "CompileError"
        ELSE "BehavioralKill"
     IN \A t \in Mutations :
          (tpc[t] = "return" /\ tpc'[t] = "done" /\ tresult[t].kind = "ok")
            => tfinal'[t].kill_type = reference(tresult[t].result)]_vars

\* Task t ended through the parent's timeout.
EndedByParentTimeout(t) ==
  /\ tpc[t] = "done"
  /\ tfinal[t].kind = "ok"
  /\ tfinal[t].test_output = handle_worker_timeout(t).output

\* C12: after a request ended through the parent's 10 s timeout (its worker
\* force-killed with the mutant on disk), the next request for that file,
\* started after the first one ended, reads the original content in its
\* step 1.
C12_OriginalAfterParentTimeout ==
  [][\A w \in Workers :
       (/\ wpc[w] = "idle" /\ wpc'[w] = "read"
        /\ \E t \in Mutations :
             /\ t # wreq'[w]
             /\ FileOf(t) = FileOf(wreq'[w])
             /\ EndedByParentTimeout(t))
       => worig'[w] = ORIG]_vars

\* C13: worker death is invisible to the user: no mutation's task ends with
\* the error of a dead worker, and run_mutations does not fail because a
\* worker process died.
C13_WorkerDeathInvisible ==
  /\ \A t \in Mutations :
       tfinal[t].kind = "err" => tfinal[t].test_output # <<"Worker process died">>
  /\ mpc = "failed" =>
       \E t \in Mutations :
         tfinal[t].kind = "err" /\ tfinal[t].test_output # <<"Worker process died">>

\* C14: termination: once the pool runs, run_mutations eventually returns
\* (with the results or with an error), whatever the workers do.
C14_Termination == (mpc = "run") ~> (mpc \in {"shutdown", "failed"})

\* C14 witness: run_mutations returned all results although a worker hung
\* with the mutant written and had to be killed by the parent's timeout.
C14_Witness ==
  /\ mpc = "shutdown"
  /\ \A t \in Mutations : tfinal[t].kind = "ok"
  /\ \E t \in Mutations : EndedByParentTimeout(t) /\ fs[<<"W", FileOf(t)>>] = MutContent(t)

\* C15: health policy on acquire: get_worker hands out a pooled worker only
\* if, when it is popped, its child has not exited, it is less than 30 s old,
\* it has fewer than 50 executions and try_wait did not fail; an unhealthy
\* one is shut down and the next is tried (front first), and a worker is
\* spawned only when the deque is exhausted.
C15_HealthPolicyOnAcquire ==
  [][/\ ~is_healthy("error", FALSE, 0)
     /\ \A w \in Workers :
          /\ (mpc = "run" /\ hstate[w] = "deque" /\ hstate'[w] \notin {"deque", "dropped"})
               => /\ w = Head(available)
                  /\ IF wproc[w] = "running" /\ ~aged[w] /\ executions[w] < MaxExecutions
                     THEN hstate'[w] = "held"
                     ELSE /\ hstate'[w] = "shutting"
                          /\ wproc[w] = "running" => inbox'[w] = <<Shutdown>>
          /\ (mpc = "run" /\ wproc[w] = "unspawned" /\ wproc'[w] # "unspawned")
               => available = <<>>]_vars

\* C15 witness: get_worker popped a worker that had turned 30 s old, shut it
\* down and goes on with the loop, still holding the lock.
C15_Witness ==
  \E t \in Mutations, w \in Workers :
    tpc[t] = "pop" /\ lock = t /\ hstate[w] = "shutdown" /\ aged[w] /\ wproc[w] = "exited"

\* The TestResults worker w has written so far: those the parent received
\* and those still on its stdout.
Returned(w) ==
  executions[w] + Cardinality({i \in 1..Len(outbox[w]) : outbox[w][i].kind = "TestResult"})

\* C16: execution cap: no worker process returns more than 50 TestResults;
\* the executions counter of a handle starts at 0, goes up by exactly one
\* with each TestResult received and never otherwise, and a handle whose
\* counter reached 50 is shut down instead of going back to the deque.
C16_ExecutionCap ==
  [][\A w \in Workers :
       /\ Returned(w)' <= MaxExecutions
       /\ (hstate[w] = "none" /\ hstate'[w] # "none") => executions'[w] = 0
       /\ executions'[w] = executions[w] \/ executions'[w] = executions[w] + 1
       /\ executions'[w] = executions[w] + 1
            <=> \E t \in Mutations :
                  /\ tworker[t] = w /\ tpc[t] = "wait" /\ tpc'[t] = "return"
                  /\ tresult'[t].kind = "ok"
                  /\ tresult'[t].result # handle_worker_timeout(t)
       /\ executions'[w] >= MaxExecutions
            => hstate'[w] \in {"held", "shutting", "shutdown", "dropped"}
       /\ (executions[w] >= MaxExecutions /\ hstate[w] = "held" /\ hstate'[w] # "held")
            => hstate'[w] = "shutting"
       /\ (hstate[w] = "shutting" /\ hstate'[w] # "shutting")
            => hstate'[w] = "shutdown" /\ wproc'[w] = "exited"]_vars

\* C16 witness: a worker that returned its 50th TestResult was shut down
\* and the next request went to another worker.
C16_Witness ==
  \E w \in Workers :
    /\ executions[w] = MaxExecutions
    /\ hstate[w] = "shutdown"
    /\ \E t \in Mutations : tpc[t] = "wait" /\ tworker[t] # w

\* The number of messages of a kind in a sequence of lines
Count(lines, kind) == Cardinality({i \in 1..Len(lines) : lines[i].kind = kind})

\* C17: Ready handshake: a worker writes one Ready line, when it starts and
\* before it reads any input; the parent sends no MutationRequest to a
\* worker before it received that worker's Ready; if the output of a new
\* worker closes before a Ready, WorkerProcess::new fails and no handle
\* enters the pool.
C17_ReadyHandshake ==
  [][\A w \in Workers :
       /\ Count(outbox'[w], "Ready") > Count(outbox[w], "Ready")
            => /\ wpc[w] = "boot" /\ wpc'[w] = "idle"
               /\ inbox[w] = <<>> /\ wreq[w] = 0
               /\ Count(outbox'[w], "Ready") = 1
       /\ (wpc'[w] = "boot" /\ wpc[w] # "boot") => wproc[w] = "unspawned"
       /\ Count(inbox'[w], "MutationRequest") > Count(inbox[w], "MutationRequest")
            => /\ wpc[w] # "boot"
               /\ Count(outbox'[w], "Ready") = 0
               /\ hstate'[w] = "held"
       /\ \A t \in Mutations :
            (tpc[t] = "spawning" /\ tworker[t] = w /\ tpc'[t] # "spawning"
               /\ ~(outbox[w] # <<>> /\ Head(outbox[w]).kind = "Ready"))
            => /\ tfinal'[t].kind = "err"
               /\ hstate'[w] = "none"
               /\ w \notin Range(available')]_vars

\* C17 witness: a replacement worker wrote its Ready, WorkerProcess::new
\* returned its handle, and the worker handles the request sent to it.
C17_Witness ==
  \E w \in Workers :
    w > pool_size /\ hstate[w] = "held" /\ wreq[w] # 0 /\ outbox[w] = <<>>

\* C18: FIFO request processing in a worker: the worker takes the request
\* at the front of its input only when it is not handling one, writes one
\* TestResult for the request it handles, carrying that request's
\* mutation_id, and only then reads the next line.
C18_WorkerFifo ==
  [][\A w \in Workers :
       /\ (wreq'[w] # wreq[w] /\ wreq'[w] # 0)
            => /\ wreq[w] = 0 /\ wpc[w] = "idle"
               /\ inbox[w] # <<>>
               /\ Head(inbox[w]) = MutationRequest(wreq'[w])
               /\ inbox'[w] = Tail(inbox[w])
               /\ outbox'[w] = outbox[w]
       /\ (Len(inbox'[w]) < Len(inbox[w]) /\ wproc'[w] = "running")
            => inbox'[w] = Tail(inbox[w]) /\ wreq'[w] = Head(inbox[w]).m
       /\ Count(outbox'[w], "TestResult") > Count(outbox[w], "TestResult")
            => /\ wreq[w] # 0 /\ wpc[w] = "reply"
               /\ outbox'[w] = Append(outbox[w], outbox'[w][Len(outbox'[w])])
               /\ outbox'[w][Len(outbox'[w])].kind = "TestResult"
               /\ outbox'[w][Len(outbox'[w])].result.mutation_id = wreq[w]
               /\ wreq'[w] = 0 /\ wpc'[w] = "idle"
       /\ (wreq[w] # 0 /\ wreq'[w] = 0 /\ wproc'[w] = "running")
            => Count(outbox'[w], "TestResult") = Count(outbox[w], "TestResult") + 1]_vars

\* C18 witness: a worker that replied to one request handles its next one.
C18_Witness ==
  \E w \in Workers :
    /\ executions[w] = 1
    /\ wproc[w] = "running"
    /\ wpc[w] = "reply"
    /\ wres[w].mutation_id = wreq[w]

\* C19: worker shutdown: a worker that reads a Shutdown message writes one
\* Shutdown response and exits in the same turn; once it has done so it
\* handles no request, changes no file and writes nothing.
C19_WorkerShutdown ==
  [][\A w \in Workers :
       /\ (/\ wproc[w] = "running" /\ inbox[w] # <<>>
           /\ Head(inbox[w]).kind = "Shutdown" /\ inbox'[w] # inbox[w])
            => \/ wpc'[w] = "dead" /\ outbox'[w] = outbox[w]
               \/ /\ outbox'[w] = Append(outbox[w], Response("Shutdown", NoResult))
                  /\ wproc'[w] = "exited" /\ wpc'[w] = "done"
                  /\ wreq'[w] = 0
                  /\ fs' = fs
       /\ Count(outbox'[w], "Shutdown") > Count(outbox[w], "Shutdown")
            => /\ Count(outbox'[w], "Shutdown") = 1
               /\ wpc[w] = "idle" /\ Head(inbox[w]).kind = "Shutdown"
               /\ wproc'[w] = "exited"
       /\ wpc[w] = "done"
            => /\ wpc'[w] = "done" /\ wproc'[w] = "exited" /\ wreq'[w] = 0
               /\ outbox'[w] = outbox[w]]_vars

\* C19 witness: a worker read the Shutdown message within the grace window,
\* answered and exited before the parent's kill.
C19_Witness ==
  \E w \in Workers :
    /\ wpc[w] = "done" /\ wproc[w] = "exited"
    /\ hstate[w] = "shutting"
    /\ outbox[w] = <<Response("Shutdown", NoResult)>>

\* C20: pool shutdown: WorkerPool::shutdown takes every worker out of the
\* deque, sends it Shutdown and kills it after the grace window; when it
\* returns the deque is empty, the pool owns no handle and no worker process
\* of the pool is alive.
C20_PoolShutdown ==
  [][/\ mpc' = "done" =>
          /\ available' = <<>>
          /\ \A w \in Workers :
               /\ wproc'[w] # "running"
               /\ hstate'[w] \in {"none", "shutdown"}
     /\ \A w \in Workers :
          /\ (mpc = "shutdown" /\ hstate[w] = "deque" /\ hstate'[w] # "deque")
               => /\ w = Head(available) /\ available' = Tail(available)
                  /\ hstate'[w] = "shutting"
                  /\ wproc[w] = "running" => inbox'[w] = Append(inbox[w], Shutdown)
          /\ (mpc = "shutdown_grace" /\ hstate[w] = "shutting" /\ hstate'[w] # "shutting")
               => hstate'[w] = "shutdown" /\ wproc'[w] = "exited"]_vars

\* C20 witness: shutdown returned after draining a deque of two workers, one
\* of which exited on the Shutdown message and one of which was killed after
\* the grace window.
C20_Witness ==
  /\ mpc = "done"
  /\ \E w1, w2 \in Workers :
       /\ hstate[w1] = "shutdown" /\ wpc[w1] = "done"
       /\ hstate[w2] = "shutdown" /\ wpc[w2] = "dead" /\ inbox[w2] = <<>>
       /\ executions[w1] + executions[w2] = NumMutations

OriginalOf(m) == read_lines(fs[Resolve(top, m.file)])

\* C22 (catalog round-trip): no mutation record is emitted for a catalog
\* file whose text equals the original file, or none of whose lines differs
\* from the line of the original at the same place.
C22_CatalogRoundTrip ==
  \A i \in 1..Len(mutations) :
     LET m == mutations[i]
     IN /\ m.mutated # OriginalOf(m)
        /\ \E k \in 1..Len(m.mutated) :
              k <= Len(OriginalOf(m)) /\ m.mutated[k] # OriginalOf(m)[k]

\* C23 (per-mutant load errors do not abort the load): a loop turn at an
\* entry whose original file cannot be found goes on to the next entry and
\* keeps the mutations loaded so far.
C23_LoadErrorSkipsEntry ==
  [][(/\ mpc = "generate_mutations"
      /\ next_entry <= Len(catalog)
      /\ catalog[next_entry].ext = file_extension
      /\ ParsedEntry.kind = "err")
     => (/\ mpc' = "generate_mutations"
         /\ next_entry' = next_entry + 1
         /\ mutations' = mutations)]_vars

\* The sum of the totals of the per-file records
RECURSIVE SumTotals(_)
SumTotals(rows) ==
  IF rows = <<>> THEN 0 ELSE Head(rows).total_mutations + SumTotals(Tail(rows))

\* C24 (report counts): in the report of any result list, total = survived
\* + behavioral_kills + compile_errors in the global statistics and in each
\* per-file record; every result is counted in exactly one per-file
\* record, that of its file, and the per-file totals sum to the global
\* total, the number of results.
C24_ReportCounts ==
  mpc = "reported" =>
    LET s == report.summary
        rows == report.per_file_stats
    IN /\ s.total = Cardinality(DOMAIN Results)
       /\ s.total = s.survived + s.behavioral_kills + s.compile_errors
       /\ \A i \in DOMAIN rows :
            /\ rows[i].total_mutations =
                 rows[i].survived + rows[i].behavioral_kills + rows[i].compile_errors
            /\ rows[i].total_mutations =
                 Cardinality({t \in DOMAIN Results : FileOf(t) = rows[i].file_path})
       /\ \A t \in DOMAIN Results :
            Cardinality({i \in DOMAIN rows : rows[i].file_path = FileOf(t)}) = 1
       /\ SumTotals(rows) = s.total

\* A report of results of two files with every kill type among them
C24_Witness ==
  /\ mpc = "reported"
  /\ Len(report.per_file_stats) = 2
  /\ report.summary.survived > 0
  /\ report.summary.behavioral_kills > 0
  /\ report.summary.compile_errors > 0

\* C25 as stated (kill-rate math, as a ratio): the global behavioural rate
\* and each per-file kill_rate equal behavioral_kills / max(1, total -
\* compile_errors).
C25_KillRateIsRatio ==
  mpc = "reported" =>
    LET s == report.summary
        rows == report.per_file_stats
        AtLeastOne(v) == IF v >= 1 THEN v ELSE 1
        IsRatioOf(r, kills, total, compile_errors) ==
          r.den > 0 /\ r.num * AtLeastOne(total - compile_errors) = kills * r.den
    IN /\ IsRatioOf(s.behavioral_rate, s.behavioral_kills, s.total, s.compile_errors)
       /\ \A i \in DOMAIN rows :
            IsRatioOf(rows[i].kill_rate, rows[i].behavioral_kills,
                      rows[i].total_mutations, rows[i].compile_errors)

\* C25 (kill-rate math, amended): the global behavioural rate and each
\* per-file kill_rate are the percentage 100 * behavioral_kills / max(1,
\* total - compile_errors): compile-error mutants are not in the
\* denominator, and the rate is 0 when there is no viable mutation.
C25_KillRateIsPercent ==
  mpc = "reported" =>
    LET s == report.summary
        rows == report.per_file_stats
        AtLeastOne(v) == IF v >= 1 THEN v ELSE 1
        IsPercentOf(r, kills, total, compile_errors) ==
          r.den > 0 /\ r.num * AtLeastOne(total - compile_errors) = 100 * kills * r.den
    IN /\ IsPercentOf(s.behavioral_rate, s.behavioral_kills, s.total, s.compile_errors)
       /\ (s.total = s.compile_errors => s.behavioral_rate.num = 0)
       /\ \A i \in DOMAIN rows :
            /\ IsPercentOf(rows[i].kill_rate, rows[i].behavioral_kills,
                           rows[i].total_mutations, rows[i].compile_errors)
            /\ (rows[i].total_mutations = rows[i].compile_errors
                  => rows[i].kill_rate.num = 0)

\* A report with behavioural kills and compile errors, and with a file
\* all of whose mutations are compile errors
C25_Witness ==
  /\ mpc = "reported"
  /\ report.summary.behavioral_kills > 0
  /\ report.summary.compile_errors > 0
  /\ \E i \in DOMAIN report.per_file_stats :
       /\ report.per_file_stats[i].total_mutations > 0
       /\ report.per_file_stats[i].total_mutations = report.per_file_stats[i].compile_errors

\* The worker processes spawned so far
Processes == {w \in Workers : wproc[w] # "unspawned"}

\* C26 as stated (pool recycling): a complete run that feeds N mutants
\* through a pool of P workers observes at least ceil(N / 50) * P - P
\* distinct worker processes (12 for N = 200, P = 4).  Here P is pool_size
\* and N the requests the workers had served plus NumMutations.
C26_RecycledProcesses ==
  mpc = "reported" =>
    LET N == pool_size * (MaxExecutions - 1) + NumMutations
        ceil == (N + MaxExecutions - 1) \div MaxExecutions
    IN Cardinality(Processes) >= ceil * pool_size - pool_size

\* C26 (pool recycling, amended): a complete run that feeds N mutants
\* through the pool observes at least ceil(N / 50) distinct worker
\* processes, and at least the P of the pool.
C26_ProcessesForCap ==
  mpc = "reported" =>
    LET N == pool_size * (MaxExecutions - 1) + NumMutations
        ceil == (N + MaxExecutions - 1) \div MaxExecutions
    IN /\ Cardinality(Processes) >= ceil
       /\ Cardinality(Processes) >= pool_size

\* A complete run in which every worker of the pool reached the cap and one
\* replacement was spawned
C26_Witness ==
  /\ mpc = "reported"
  /\ \A w \in 1..pool_size : executions[w] = MaxExecutions
  /\ Cardinality(Processes) = pool_size + 1

\* C28 (the file under test): while the test runner started for request R
\* is running, the target file holds exactly R.mutated_content; no write or
\* restore of another request changes it between R's write and R's restore.
C28_FileHoldsMutantDuringTests ==
  \A w \in Workers :
     (wproc[w] = "running" /\ wpc[w] = "mutated")
       => fs[Target(wreq[w])] = MutContent(wreq[w])

\* The TestResult lines among the lines q
TestResultsIn(q) == {q[i].result : i \in {j \in DOMAIN q : q[j].kind = "TestResult"}}

\* C29 (reply attribution): the TestResult that execute_mutation returns for
\* a request carries the request's mutation_id and was produced for it: the
\* only TestResult lines a waiting task can read are replies to its own
\* request, and a worker in the deque has no unread reply left.
C29_ReplyAttribution ==
  /\ \A t \in Mutations :
       /\ tresult[t].kind = "ok" => tresult[t].result.mutation_id = t
       /\ tpc[t] = "wait" =>
            \A r \in TestResultsIn(outbox[tworker[t]]) : r.mutation_id = t
       /\ tfinal[t].kind = "ok" => tfinal[t].id = t
  /\ \A w \in Workers : hstate[w] = "deque" => TestResultsIn(outbox[w]) = {}

\* A run that ended with results although the reply of a request that timed
\* out was left unread behind its worker
C29_Witness ==
  /\ mpc = "reported"
  /\ \E w \in timedout : TestResultsIn(outbox[w]) # {}
  /\ \E t \in Mutations : /\ tfinal[t].kind = "ok"
                           /\ ~contains(tfinal[t].test_output, "Worker timeout after")

\* The tasks that own the handle of w
Owners(w) == {t \in Mutations : tworker[t] = w}

\* The MutationRequests worker w has been sent and has not answered
Outstanding(w) ==
  Count(inbox[w], "MutationRequest") + (IF MidRequest(w) THEN 1 ELSE 0)

\* C30 (one request at a time): a handle that was checked out is owned by
\* exactly one dispatcher task, a worker never has two outstanding
\* MutationRequests, and a worker that sits in the available deque has no
\* owner and no request.
C30_OneRequestAtATime ==
  \A w \in Workers :
     /\ Cardinality(Owners(w)) <= 1
     /\ hstate[w] = "held" => Cardinality(Owners(w)) = 1
     /\ Outstanding(w) <= 1
     /\ Outstanding(w) = 1 => Owners(w) # {}
     /\ w \in Range(available) => (Owners(w) = {} /\ Outstanding(w) = 0)

\* Both workers of the pool are at work on a request each, for two tasks
C30_Witness ==
  \E v, w \in Workers :
     /\ v # w
     /\ MidRequest(v) /\ MidRequest(w)
     /\ Owners(v) # {} /\ Owners(w) # {} /\ Owners(v) # Owners(w)

\* C31 (no lock across a spawn): while a task spawns a replacement worker
\* and waits for its Ready, it does not hold the mutex of the deque, so that
\* other tasks can return or acquire workers.
C31_LockFreeDuringSpawn ==
  \A t \in Mutations : tpc[t] = "spawning" => lock # t

\* C32 (return and reuse order): return_worker puts a healthy worker at the
\* back of the deque and starts the shutdown of an unhealthy one without
\* enqueueing it; get_worker takes the worker at the front, so idle workers
\* are reused in the order in which they were returned.
C32_ReturnAndReuseOrder ==
  [][\A t \in Mutations :
       /\ (tpc[t] = "return" /\ tpc'[t] # "return") =>
            LET w == tworker[t] IN
            IF Healthy(w)
            THEN available' = Append(available, w) /\ hstate'[w] = "deque"
            ELSE /\ available' = available
                 /\ w \notin Range(available')
                 /\ hstate'[w] = "shutting"
       /\ (tpc[t] \in {"get_worker", "pop"} /\ tpc'[t] \in {"wait", "pop_shutdown"}
           /\ available # <<>>) =>
            /\ tworker'[t] = Head(available)
            /\ available' = Tail(available)]_vars

\* A request is served by the worker that was returned first, while the
\* worker that was returned after it waits in the deque
C32_Witness ==
  \E t \in Mutations : \E w, v \in Workers :
     /\ tpc[t] = "wait" /\ tworker[t] = w
     /\ w > v
     /\ executions[w] >= 1 /\ executions[v] >= 1
     /\ available = <<v>>

\* C33 (worker-side test timeout): a worker whose test runner does not end
\* gives up after 5 s, restores the file and replies TIMEOUT:, so the 10 s
\* ceiling of the parent never finds a worker still inside
\* run_targeted_tests with the mutant on disk.
C33_WorkerTimesOutFirst ==
  [][\A t \in Mutations :
       (tpc[t] = "wait" /\ tpc'[t] = "return" /\ tworker[t] \in timedout' \ timedout)
         => wpc[tworker[t]] # "mutated"]_vars

\* C34 (failing test output is passed through untagged): when the test
\* runner was spawned, ended in time and exited with a non-zero code, the
\* TestResult has success = false and its output is exactly what the runner
\* printed, whatever that text is.
C34_FailingOutputUntagged ==
  \A w \in Workers :
     (wpc[w] = "reply" /\ wrun[w].how = "exit" /\ wrun[w].code # 0)
       => /\ ~wres[w].success
          /\ wres[w].output = wrun[w].out

\* C35 (file errors stop the request): a worker whose read of the original
\* file fails goes straight to its reply, with success = false and an output
\* that starts with FILE_ERROR:, leaving every file as it was and running no
\* test; a worker whose write of the mutant fails goes straight to its reply
\* with the same tag and runs no test.
C35_FileErrorsStopRequest ==
  [][\A w \in Workers :
       /\ (wpc[w] = "idle" /\ wpc'[w] # "idle" /\ wpc'[w] # "read"
              /\ wproc'[w] = "running")
            => /\ wpc'[w] = "reply"
               /\ ~wres'[w].success
               /\ Head(wres'[w].output) = "FILE_ERROR:"
               /\ wres'[w].mutation_id = wreq'[w]
               /\ fs' = fs
               /\ wrun'[w] = NoRun
       /\ (wpc[w] = "read" /\ wpc'[w] # "read" /\ wpc'[w] # "mutated"
              /\ wproc'[w] = "running")
            => /\ wpc'[w] = "reply"
               /\ ~wres'[w].success
               /\ Head(wres'[w].output) = "FILE_ERROR:"
               /\ wres'[w].mutation_id = wreq[w]
               /\ wrun'[w] = NoRun
       /\ (wpc[w] = "reply" /\ wres[w].output # <<>>
              /\ Head(wres[w].output) = "FILE_ERROR:")
            => /\ wrun[w] = NoRun
               /\ wproc'[w] = "running" => wpc'[w] \in {"reply", "idle"}]_vars
C35_Witness ==
  \E w \in Workers :
     /\ wpc[w] = "reply"
     /\ wres[w] = write_error_result(wreq[w])
     /\ fs[Target(wreq[w])] = TRUNC

\* C36 (one result per mutation): when run_mutations has returned Ok, the
\* list it returned holds exactly one MutationResult for each mutation of
\* the catalog: as many results as mutations, every mutation's id among
\* them, no id twice, whatever the order in which the requests completed.
C36_OneResultPerMutation ==
  mpc \in {"shutdown", "shutdown_grace", "done", "reported"} =>
    \A o \in CompletionOrders :
       LET ret == push_results(results_collected(o))
       IN /\ ret.kind = "Ok"
          /\ Len(ret.list) = NumMutations
          /\ \A m \in Mutations : \E i \in 1..Len(ret.list) : ret.list[i].id = m
          /\ \A i, j \in 1..Len(ret.list) :
                ret.list[i].id = ret.list[j].id => i = j
          /\ \A i \in 1..Len(ret.list) : ret.list[i].kind = "ok"
\* run_mutations returned Ok after a request that timed out and a request
\* whose mutant survived
C36_Witness ==
  /\ mpc = "shutdown"
  /\ timedout # {}
  /\ \E t \in Mutations : tfinal[t].kind = "ok" /\ tfinal[t].kill_type = "Survived"

C38_CacheHitSameContent ==
  \A t \in Mutations :
     (task_result[t].kind = "Ok" /\ task_result[t].from_cache)
       => LET mu == safe_mutations[t]
          IN task_result[t].tested =
               apply_mutation_to_content(temp_copies[mu.file], mu).content

====
